---- MODULE Spec2Model ----
(***************************************************************************)
(* Model of the ADORAG synchronisation engine: SyncManager.sync            *)
(* (src/src/sync_service.py), the collaborators it drives                  *)
(* (src/src/ado_service.py, src/src/search_service.py,                     *)
(* src/src/embedding_service.py) and its caller perform_sync (src/app.py), *)
(* of the user sessions that share the cached SyncManager (src/app.py),    *)
(* and of the query orchestrator RAGService.query                          *)
(* (src/src/rag_service.py).                                               *)
(*                                                                         *)
(* Time is a natural number of ticks; TicksPerDay ticks make one calendar  *)
(* day, so that the date-only WIQL comparison and the exact client-side    *)
(* comparison of fetch_work_items differ.  An item's content is            *)
(* represented by its changed timestamp (the content string is a           *)
(* deterministic function of the item's fields).                           *)
(***************************************************************************)
EXTENDS Integers, Sequences, FiniteSets, TLC

\* ---------------------------------------------------------------- bounds
MaxId       == 2      \* native work item ids are 1..MaxId
TicksPerDay == 2      \* ticks per calendar day
MaxBatch    == 2      \* sync's batch_size parameter ranges over 1..MaxBatch
MaxEvents   == 5      \* events explored: sync requests, modifications of
                      \* the Item Source, clock ticks, collaborator failures
MaxSessions == 2      \* user sessions of the application
MaxDocs     == 3      \* the index the queries run against holds items
                      \* 1..MaxDocs
MaxChunks   == 2      \* chunks with content a generation stream delivers
MaxItems    == 9      \* items a run of the progress specification fetches
MaxTriageDocs == 13   \* the larger index of the triage flow holds items
                      \* 1..MaxTriageDocs

\* ------------------------------------------------------ program constants
ApiBatchSize == 16    \* batch_size passed to generate_embeddings_batch
TopK             == 5   \* top_k of query
CountTopK        == 50  \* search_top_k of a count/list question
BugLookupTopK    == 1   \* top_k of the triage flow's lookup of the bug
SimilarBugsTopK  == 10  \* top_k of the retrieval of similar bugs
RequirementsTopK == 5   \* top_k of the retrieval of requirements
SimilarBugsShown == 5   \* similar_bugs[:5]

Ids         == 1..MaxId
None        == -1               \* Python None for numbers / datetimes
NoTime      == <<>>             \* a null last_sync_time field
ProjectName == "proj"           \* config["ado_project_name"]

\* SearchIndexManager.METADATA_DOC_ID: the reserved key "sync-metadata".
\* Item keys are f"{project_name}_{work_item_id}", modelled as pairs.
METADATA_DOC_ID == <<"sync-metadata", 0>>
\* the metadata document's work_item_id field (also "sync-metadata"),
\* a value that is no native id
METADATA_WID == 0

DocId(project_name, work_item_id) == <<project_name, work_item_id>>

\* Error texts a collaborator may raise with, as word sequences.
ErrorTexts ==
    { <<"Service", "unavailable">>,
      <<"Cannot", "convert", "value", "to", "Edm.DateTimeOffset">>,
      <<"Invalid", "Sync", "Metadata", "document">> }

Lower(w) ==
    CASE w = "Sync"     -> "sync"
      [] w = "Metadata" -> "metadata"
      [] w = "Service"  -> "service"
      [] w = "Cannot"   -> "cannot"
      [] w = "Invalid"  -> "invalid"
      [] OTHER          -> w

\* ------------------------------------------------------------- variables
VARIABLES
    now,              \* the clock (datetime.utcnow)
    source,           \* Item Source: id -> changed timestamp, or None
    indexExists,      \* the search index has been created
    store,            \* Index Store: the set of documents in the index
    pc,               \* position of the running perform_sync/sync
    force_full_sync,  \* sync's argument
    batch_size,       \* sync's argument
    last_sync_time,   \* sync's local: parsed last sync time or None
    work_items,       \* sync's local: the fetched items
    synced_count,     \* sync's local
    total_count,      \* sync's local
    current_time,     \* sync's local (step 7)
    error,            \* text of the exception sync raised
    sync_in_progress, \* st.session_state.sync_in_progress
    status,           \* what perform_sync showed the user
    upserted,         \* history: native ids this run wrote
    deleted,          \* history: native ids this run deleted
    metaWritten,      \* history: this run wrote the metadata record
    raisedAt,         \* history: the call that raised
    faulted,          \* history: a collaborator failed during this run
    srcChangedInRun,  \* history: the source changed since this run began
    completedAt,      \* history: the time at which sync returned
    prev,             \* history: summary of the previous run
    fetchedAt,        \* history: the time of the latest fetch from the
                      \* Item Source, or None
    progress,         \* history: the percents passed to progress_callback
    events            \* exploration counter

VARIABLES
    session_state,    \* per user session: st.session_state and the position
                      \* of the session's script in perform_sync/sync
    question,         \* query's argument
    qpc,              \* position of the running query generator
    route,            \* the path query took
    is_count_query,   \* query's local
    wants_list,       \* query's local
    actual_count,     \* query's local: the exact count, or None
    relevant_docs,    \* query's local: the hybrid retrieval's result
    similar_bugs,     \* _handle_bug_triage's local
    requirements,     \* _handle_bug_triage's local
    context,          \* the context sent to the Generation Client
    references,       \* the references block
    yielded,          \* the chunks the generator has yielded
    calls             \* history: the collaborator calls query made

syncVars == << now, source, indexExists, store, pc, force_full_sync,
               batch_size, last_sync_time, work_items, synced_count,
               total_count, current_time, error, sync_in_progress, status,
               upserted, deleted, metaWritten, raisedAt, faulted,
               srcChangedInRun, completedAt, prev, fetchedAt, progress,
               events >>

queryVars == << question, qpc, route, is_count_query, wants_list,
                actual_count, relevant_docs, similar_bugs, requirements,
                context, references, yielded, calls >>

vars == << syncVars, session_state, queryVars >>

appVars  == << sync_in_progress, status >>
runVars  == << force_full_sync, batch_size, last_sync_time, work_items,
               synced_count, total_count, current_time, error >>
histVars == << upserted, deleted, metaWritten, raisedAt, faulted,
               completedAt >>


\* ---------------------------------------------------- general helpers
Min(a, b) == IF a < b THEN a ELSE b

\* "needle in haystack" over word sequences
Contains(text, words) ==
    \E k \in 0..(Len(text) - Len(words)) :
        \A j \in 1..Len(words) : text[k + j] = words[j]

LowerText(text) == [k \in 1..Len(text) |-> Lower(text[k])]

\* ------------------------------------------------ time representation
\* last_sync_time.strftime("%Y-%m-%dT%H:%M:%S.%fZ"): a day and a time of day
FormatSyncTime(t) == << t \div TicksPerDay, t % TicksPerDay >>

\* datetime.fromisoformat(s.replace("Z", "+00:00"))
ParseSyncTime(s) == s[1] * TicksPerDay + s[2]

\* last_sync_time.strftime("%Y-%m-%d"): the date only
DateOnly(t) == t \div TicksPerDay

\* ------------------------------------------------------ Item Source
\* System.WorkItemType and System.State of item i: fixed per item
ItemType(i)  == IF i % 2 = 1 THEN "Bug" ELSE "User Story"
ItemState(i) == IF i % 3 = 0 THEN "Closed" ELSE "Active"

SourceIds == { i \in Ids : source[i] # None }

\* ADOConnector._extract_work_item_data: the document built for an item
ExtractWorkItemData(work_item_id, changed_date, project_name) ==
    [ id               |-> DocId(project_name, work_item_id),
      work_item_id     |-> work_item_id,
      work_item_type   |-> ItemType(work_item_id),
      state            |-> ItemState(work_item_id),
      changed_date     |-> changed_date,
      is_metadata      |-> FALSE,
      content_vector   |-> "none",
      last_sync_time   |-> NoTime,
      work_item_count  |-> None ]

\* The WIQL query of fetch_work_items: all items of the project, or those
\* with [System.ChangedDate] >= the date of last_sync_time.
WiqlMatches(src, lst) ==
    { i \in Ids : /\ src[i] # None
                  /\ (lst # None => DateOnly(src[i]) >= DateOnly(lst)) }

\* a client-side filter that keeps an item changed exactly at last_sync_time
ClientKeepsNotBefore(changed_date, lst) ==
    ~ (lst # None /\ changed_date < lst)

\* The client-side filter of fetch_work_items: an item is skipped when
\* changed_date <= last_sync_time.
ClientKeeps(changed_date, lst) ==
    ~ (lst # None /\ changed_date <= lst)

\* The ids fetch_work_items returns
FetchedIds(src, lst) ==
    { i \in WiqlMatches(src, lst) : ClientKeeps(src[i], lst) }

\* ORDER BY [System.ChangedDate] DESC (ties in the server's order)
IsChangedDesc(seq, src) ==
    \A k \in 1..(Len(seq) - 1) : src[seq[k]] >= src[seq[k + 1]]

Orderings(S, src) ==
    { seq \in [1..Cardinality(S) -> S] :
        /\ \A a, b \in 1..Cardinality(S) : a # b => seq[a] # seq[b]
        /\ IsChangedDesc(seq, src) }

\* ADOConnector.get_all_work_item_ids
AdoAllWorkItemIds(src) == { i \in Ids : src[i] # None }

\* ------------------------------------------------------- Vectorizer
\* a batch embedding that appends nothing for a sub-batch whose call failed
GenerateEmbeddingsBatchDropsFailed(texts, sub_batch_size, failedSubBatches) ==
    LET kept == { k \in 1..Len(texts) :
                    ((k - 1) \div sub_batch_size) \notin failedSubBatches }
    IN  [ k \in 1..Cardinality(kept) |-> "embedding" ]

\* EmbeddingService.generate_embeddings_batch: one vector per text; the
\* texts of a sub-batch whose API call failed get the zero vector.
GenerateEmbeddingsBatch(texts, sub_batch_size, failedSubBatches) ==
    [ k \in 1..Len(texts) |->
        IF ((k - 1) \div sub_batch_size) \in failedSubBatches
        THEN "zero" ELSE "embedding" ]

SubBatches(n, sub_batch_size) ==
    IF n = 0 THEN {} ELSE 0..((n - 1) \div sub_batch_size)

\* ------------------------------------------------------ Index Store
\* the filter "is_metadata eq false or is_metadata eq null"
ItemDocs(st) == { d \in st : d.is_metadata = FALSE }

MetaDocs(st) == { d \in st : d.id = METADATA_DOC_ID }

Keys(st) == { d.id : d \in st }

\* search_client.upload_documents: the documents that succeed replace any
\* document with the same key (merge-or-upload by key)
Upload(st, docs) ==
    { d \in st : \A n \in docs : n.id # d.id } \cup docs

\* search_client.delete_documents, by key
DeleteKeys(st, keys) == { d \in st : d.id \notin keys }

\* a count query without the is_metadata filter
GetWorkItemCountUnfiltered(st, queryFails) ==
    IF queryFails THEN 0 ELSE Cardinality(st)

\* SearchIndexManager.get_work_item_count (0 when the query fails)
GetWorkItemCount(st, queryFails) ==
    IF queryFails THEN 0 ELSE Cardinality(ItemDocs(st))

\* SearchIndexManager.get_all_work_item_ids (empty when the query fails)
IndexAllWorkItemIds(st, queryFails) ==
    IF queryFails THEN {} ELSE { d.work_item_id : d \in ItemDocs(st) }

\* SearchIndexManager.get_sync_metadata: the last_sync_time of the metadata
\* record, NoTime when there is none or the lookup fails
GetSyncMetadata(st, lookupFails) ==
    IF lookupFails \/ MetaDocs(st) = {} THEN NoTime
    ELSE (CHOOSE d \in MetaDocs(st) : TRUE).last_sync_time

\* the document SearchIndexManager.update_sync_metadata uploads
MetadataDoc(t, work_item_count) ==
    [ id               |-> METADATA_DOC_ID,
      work_item_id     |-> METADATA_WID,
      work_item_type   |-> "Metadata",
      state            |-> "Active",
      changed_date     |-> None,
      is_metadata      |-> TRUE,
      content_vector   |-> "zero",
      last_sync_time   |-> FormatSyncTime(t),
      work_item_count  |-> work_item_count ]

\* ------------------------------------------------------------ caller
\* perform_sync's classification of an exception by its text
IsMetadataError(e) ==
    \/ Contains(e, <<"Edm.DateTimeOffset">>)
    \/ Contains(LowerText(e), <<"sync", "metadata">>)


\* ----------------------------------------------------------- initial
NoRun == [ kind |-> "none", total |-> 0, keys |-> {} ]

\* no perform_sync is running
NoSyncRunning ==
    /\ pc = "idle"
    /\ force_full_sync = FALSE
    /\ batch_size = 1
    /\ last_sync_time = None
    /\ work_items = <<>>
    /\ synced_count = 0
    /\ total_count = 0
    /\ current_time = None
    /\ error = <<>>
    /\ sync_in_progress = FALSE
    /\ status = "none"
    /\ upserted = {}
    /\ deleted = {}
    /\ metaWritten = FALSE
    /\ raisedAt = "none"
    /\ faulted = FALSE
    /\ srcChangedInRun = FALSE
    /\ completedAt = None
    /\ prev = NoRun
    /\ fetchedAt = None
    /\ progress = <<>>
    /\ events = 0

Sessions == 1..MaxSessions

\* a session whose script is not in perform_sync
IdleSession(shown) ==
    [ sync_in_progress |-> FALSE, position |-> "idle",
      force_full_sync |-> FALSE, error |-> <<>>, status |-> shown ]

NoSession == session_state = [u \in Sessions |-> IdleSession("none")]

\* the context of a query before it is built
NoContext ==
    [ count_block |-> "none", actual_count |-> None, current_bug |-> None,
      items |-> <<>>, similar_bugs |-> <<>>, requirements |-> <<>>,
      none_found |-> {} ]

\* no query is running
NoQuery ==
    /\ question = <<>>
    /\ qpc = "idle"
    /\ route = "none"
    /\ is_count_query = FALSE
    /\ wants_list = FALSE
    /\ actual_count = None
    /\ relevant_docs = <<>>
    /\ similar_bugs = <<>>
    /\ requirements = <<>>
    /\ context = NoContext
    /\ references = <<>>
    /\ yielded = <<>>
    /\ calls = <<>>

Init ==
    /\ now = 0
    /\ source = [i \in Ids |-> None]
    /\ indexExists = FALSE
    /\ store = {}
    /\ NoSyncRunning
    /\ NoSession
    /\ NoQuery

\* n more events, while the budget lasts
Spend(n) ==
    /\ events + n <= MaxEvents
    /\ events' = events + n

Cost(b) == IF b THEN 1 ELSE 0

\* a collaborator fails (b) or not
Fault(b) ==
    /\ Spend(Cost(b))
    /\ faulted' = (faulted \/ b)

\* sync raises e out of the call `where`
Raise(e, where) ==
    /\ pc' = "raised"
    /\ error' = e
    /\ raisedAt' = where

\* ------------------------------------------------------ environment
\* The clock and the Item Source move on their own.  sync reads the source
\* in the fetch and in deletion reconciliation and the clock in step 7; a
\* move of the environment at any other point of a run commutes with the
\* steps of sync up to the next of these points, so the moves are taken
\* between runs, before reconciliation and before step 7.
EnvironmentMoves == pc \in {"idle", "cleanup", "finish"}

Tick ==
    /\ UNCHANGED << session_state, queryVars, fetchedAt, progress >>
    /\ EnvironmentMoves
    /\ Spend(1)
    /\ now' = now + 1
    /\ UNCHANGED << source, indexExists, store, pc, runVars, appVars,
                    histVars, srcChangedInRun, prev >>

\* an item is created or edited in the tracker
SourceChange(i) ==
    /\ UNCHANGED << session_state, queryVars, fetchedAt, progress >>
    /\ EnvironmentMoves
    /\ Spend(1)
    /\ source' = [source EXCEPT ![i] = now]
    /\ srcChangedInRun' = TRUE
    /\ prev' = IF prev.kind = "full_ok" THEN NoRun ELSE prev
    /\ UNCHANGED << now, indexExists, store, pc, runVars, appVars, histVars >>

\* an item is removed from the tracker
SourceDelete(i) ==
    /\ UNCHANGED << session_state, queryVars, fetchedAt, progress >>
    /\ EnvironmentMoves
    /\ Spend(1)
    /\ source[i] # None
    /\ source' = [source EXCEPT ![i] = None]
    /\ srcChangedInRun' = TRUE
    /\ prev' = IF prev.kind = "full_ok" THEN NoRun ELSE prev
    /\ UNCHANGED << now, indexExists, store, pc, runVars, appVars, histVars >>

\* --------------------------------------------- perform_sync and sync
\* perform_sync up to the call of sync, and sync up to the fetch: the lock,
\* index creation, and the choice of last_sync_time.
BeginRun(force, bs) ==
    /\ UNCHANGED << session_state, queryVars, fetchedAt, progress >>
    /\ pc = "idle"
    /\ ~ sync_in_progress
    /\ sync_in_progress' = TRUE
    /\ force_full_sync' = force
    /\ batch_size' = bs
    /\ work_items' = <<>>
    /\ synced_count' = 0
    /\ total_count' = 0
    /\ current_time' = None
    /\ upserted' = {}
    /\ deleted' = {}
    /\ metaWritten' = FALSE
    /\ completedAt' = None
    /\ srcChangedInRun' = FALSE
    /\ status' = "none"
    /\ UNCHANGED << now, source, store, prev >>

PerformSync(force, bs, lookupFails) ==
    /\ BeginRun(force, bs)
    /\ lookupFails => (~ force /\ MetaDocs(store) # {})
    /\ Spend(1 + Cost(lookupFails))
    /\ faulted' = lookupFails
    /\ indexExists' = TRUE
    /\ LET sync_metadata == GetSyncMetadata(store, lookupFails)
       IN  last_sync_time' =
               IF ~ force /\ sync_metadata # NoTime
               THEN ParseSyncTime(sync_metadata) ELSE None
    /\ pc' = "fetch"
    /\ UNCHANGED << error, raisedAt >>

\* create_index raises
PerformSyncCreateFails(force, bs, e) ==
    /\ BeginRun(force, bs)
    /\ ~ indexExists
    /\ Spend(2)
    /\ faulted' = TRUE
    /\ Raise(e, "create_index")
    /\ UNCHANGED << indexExists, last_sync_time >>

\* fetch_work_items raises
SyncFetchFails(e) ==
    /\ UNCHANGED << session_state, queryVars, fetchedAt, progress >>
    /\ pc = "fetch"
    /\ Fault(TRUE)
    /\ Raise(e, "fetch")
    /\ UNCHANGED << now, source, indexExists, store, force_full_sync,
                    batch_size, last_sync_time, work_items, synced_count,
                    total_count, current_time, appVars, upserted, deleted,
                    metaWritten, completedAt, srcChangedInRun, prev >>

\* progress_callback raises at one of the checkpoints of sync (before the
\* fetch, in a batch, before deletion reconciliation): sync calls it with no
\* handler around the call, so the exception leaves sync
SyncCallbackFails(e) ==
    /\ UNCHANGED << session_state, queryVars, fetchedAt, progress >>
    /\ pc \in {"fetch", "batch", "cleanup"}
    /\ Spend(1)
    /\ Raise(e, "callback")
    /\ UNCHANGED << now, source, indexExists, store, force_full_sync,
                    batch_size, last_sync_time, work_items, synced_count,
                    total_count, current_time, appVars, upserted, deleted,
                    metaWritten, faulted, completedAt, srcChangedInRun, prev >>

\* fetch_work_items returns; with no item sync returns at once
SyncFetch(countFails) ==
    /\ UNCHANGED << session_state, queryVars, progress >>
    /\ pc = "fetch"
    /\ fetchedAt' = now
    /\ LET ids == FetchedIds(source, last_sync_time)
       IN  \E order \in Orderings(ids, source) :
             /\ work_items' =
                   [ k \in 1..Len(order) |->
                       ExtractWorkItemData(order[k], source[order[k]],
                                           ProjectName) ]
             /\ IF ids = {}
                THEN /\ Fault(countFails)
                     /\ total_count' = GetWorkItemCount(store, countFails)
                     /\ pc' = "returned"
                     /\ completedAt' = now
                ELSE /\ ~ countFails
                     /\ Fault(FALSE)
                     /\ pc' = "batch"
                     /\ UNCHANGED << total_count, completedAt >>
    /\ UNCHANGED << now, source, indexExists, store, force_full_sync,
                    batch_size, last_sync_time, synced_count, current_time,
                    error, appVars, upserted, deleted, metaWritten, raisedAt,
                    srcChangedInRun, prev >>

\* the batch the loop of sync is at
BatchEnd == Min(synced_count + batch_size, Len(work_items))
BatchIndexes == (synced_count + 1)..BatchEnd

\* the batch with the embeddings attached
Embedded(failedSubBatches) ==
    LET n == BatchEnd - synced_count
        texts == [ k \in 1..n |-> work_items[synced_count + k].changed_date ]
        embeddings ==
            GenerateEmbeddingsBatch(texts, ApiBatchSize, failedSubBatches)
    IN  [ k \in 1..Len(work_items) |->
            IF k \in BatchIndexes /\ k - synced_count <= Len(embeddings)
            THEN [ work_items[k] EXCEPT
                     !.content_vector = embeddings[k - synced_count] ]
            ELSE work_items[k] ]

\* a sync that runs deletion reconciliation whatever force_full_sync is
AfterBatchesAlwaysCleanup(force) == "cleanup"

\* after the last batch: deletion reconciliation only during a full sync
AfterBatches(force) == IF force THEN "cleanup" ELSE "finish"

\* one iteration of the batch loop whose upsert raises
SyncBatchFails(failedSubBatches, e) ==
    /\ UNCHANGED << session_state, queryVars, fetchedAt, progress >>
    /\ pc = "batch"
    /\ failedSubBatches \subseteq
           SubBatches(BatchEnd - synced_count, ApiBatchSize)
    /\ Spend(1 + Cost(failedSubBatches # {}))
    /\ faulted' = TRUE
    /\ work_items' = Embedded(failedSubBatches)
    /\ Raise(e, "upsert")
    /\ UNCHANGED << now, source, indexExists, store, force_full_sync,
                    batch_size, last_sync_time, synced_count, total_count,
                    current_time, appVars, upserted, deleted, metaWritten,
                    completedAt, srcChangedInRun, prev >>

\* one iteration of the batch loop: embed, attach, upsert; the documents in
\* `succeeded` are the ones the store reports as written
SyncBatch(failedSubBatches, succeeded) ==
    /\ UNCHANGED << session_state, queryVars, fetchedAt, progress >>
    /\ pc = "batch"
    /\ failedSubBatches \subseteq
           SubBatches(BatchEnd - synced_count, ApiBatchSize)
    /\ succeeded \subseteq BatchIndexes
    /\ LET nf == Cost(failedSubBatches # {}) + Cost(succeeded # BatchIndexes)
       IN  /\ Spend(nf)
           /\ faulted' = (faulted \/ nf > 0)
    /\ work_items' = Embedded(failedSubBatches)
    /\ store' = Upload(store, { work_items'[k] : k \in succeeded })
    /\ upserted' = upserted \cup { work_items[k].work_item_id : k \in succeeded }
    /\ synced_count' = BatchEnd
    /\ pc' = IF BatchEnd < Len(work_items) THEN "batch"
             ELSE AfterBatches(force_full_sync)
    /\ UNCHANGED << now, source, indexExists, force_full_sync, batch_size,
                    last_sync_time, total_count, current_time, error,
                    appVars, deleted, metaWritten, raisedAt, completedAt,
                    srcChangedInRun, prev >>


\* deletion reconciliation: a call of it raises (the id listing of the
\* Item Source, or delete_documents)
SyncCleanupFails(where, e) ==
    /\ UNCHANGED << session_state, queryVars, fetchedAt, progress >>
    /\ pc = "cleanup"
    /\ where \in {"list_ids", "delete"}
    /\ where = "delete" =>
           IndexAllWorkItemIds(store, FALSE) \ AdoAllWorkItemIds(source) # {}
    /\ Fault(TRUE)
    /\ Raise(e, where)
    /\ UNCHANGED << now, source, indexExists, store, force_full_sync,
                    batch_size, last_sync_time, work_items, synced_count,
                    total_count, current_time, appVars, upserted, deleted,
                    metaWritten, completedAt, srcChangedInRun, prev >>

\* deletion reconciliation (full sync only): the ids in the index and not in
\* the Item Source are deleted; `removed` are the ids whose deletion the
\* store reports as succeeded
SyncCleanup(listFails, removed) ==
    /\ UNCHANGED << session_state, queryVars, fetchedAt, progress >>
    /\ pc = "cleanup"
    /\ LET ado_work_item_ids   == AdoAllWorkItemIds(source)
           index_work_item_ids == IndexAllWorkItemIds(store, listFails)
           deleted_ids         == index_work_item_ids \ ado_work_item_ids
           nf == Cost(listFails) + Cost(removed # deleted_ids)
       IN  /\ removed \subseteq deleted_ids
           /\ listFails => ItemDocs(store) # {}
           /\ Spend(nf)
           /\ faulted' = (faulted \/ nf > 0)
           /\ store' = DeleteKeys(store,
                                  { DocId(ProjectName, w) : w \in removed })
           /\ deleted' = removed
    /\ pc' = "finish"
    /\ UNCHANGED << now, source, indexExists, runVars, appVars, upserted,
                    metaWritten, raisedAt, completedAt, srcChangedInRun,
                    prev >>

\* step 7 whose metadata upload raises
SyncFinishFails(countFails, e) ==
    /\ UNCHANGED << session_state, queryVars, fetchedAt, progress >>
    /\ pc = "finish"
    /\ Spend(1 + Cost(countFails))
    /\ faulted' = TRUE
    /\ current_time' = now
    /\ total_count' = GetWorkItemCount(store, countFails)
    /\ Raise(e, "metadata")
    /\ UNCHANGED << now, source, indexExists, store, force_full_sync,
                    batch_size, last_sync_time, work_items, synced_count,
                    appVars, upserted, deleted, metaWritten, completedAt,
                    srcChangedInRun, prev >>

\* step 7: count the items, overwrite the metadata record, return
SyncFinish(countFails) ==
    /\ UNCHANGED << session_state, queryVars, fetchedAt, progress >>
    /\ pc = "finish"
    /\ Fault(countFails)
    /\ current_time' = now
    /\ total_count' = GetWorkItemCount(store, countFails)
    /\ store' = Upload(store, { MetadataDoc(current_time', total_count') })
    /\ metaWritten' = TRUE
    /\ completedAt' = now
    /\ pc' = "returned"
    /\ UNCHANGED << now, source, indexExists, force_full_sync, batch_size,
                    last_sync_time, work_items, synced_count, error, appVars,
                    upserted, deleted, raisedAt, srcChangedInRun, prev >>

\* what perform_sync reports for the way sync ended
Outcome(position, e) ==
    IF position = "returned" THEN "success"
    ELSE IF IsMetadataError(e) THEN "metadata_warning"
    ELSE "failed"

\* perform_sync after sync: the message shown, and the lock released
PerformSyncEnd ==
    /\ UNCHANGED << session_state, queryVars, fetchedAt, progress >>
    /\ pc \in {"returned", "raised"}
    /\ status' = Outcome(pc, error)
    /\ sync_in_progress' = FALSE
    /\ pc' = "idle"
    /\ prev' = IF /\ pc = "returned" /\ force_full_sync
                   /\ ~ faulted /\ ~ srcChangedInRun
                THEN [ kind  |-> "full_ok", total |-> total_count,
                       keys  |-> Keys(ItemDocs(store)) ]
                ELSE IF /\ raisedAt = "metadata"
                        /\ { work_items[k].work_item_id :
                                k \in 1..Len(work_items) } \subseteq upserted
                THEN [ NoRun EXCEPT !.kind = "meta_failed" ]
                ELSE NoRun
    /\ force_full_sync' = FALSE
    /\ batch_size' = 1
    /\ last_sync_time' = None
    /\ work_items' = <<>>
    /\ synced_count' = 0
    /\ total_count' = 0
    /\ current_time' = None
    /\ error' = <<>>
    /\ upserted' = {}
    /\ deleted' = {}
    /\ metaWritten' = FALSE
    /\ raisedAt' = "none"
    /\ faulted' = FALSE
    /\ completedAt' = None
    /\ UNCHANGED << now, source, indexExists, store, srcChangedInRun, events >>

Next ==
    \/ Tick
    \/ \E i \in Ids : SourceChange(i)
    \/ \E i \in Ids : SourceDelete(i)
    \/ \E force \in BOOLEAN, bs \in 1..MaxBatch, lookupFails \in BOOLEAN :
          PerformSync(force, bs, lookupFails)
    \/ \E force \in BOOLEAN, bs \in 1..MaxBatch, e \in ErrorTexts :
          PerformSyncCreateFails(force, bs, e)
    \/ \E e \in ErrorTexts : SyncFetchFails(e)
    \/ \E e \in ErrorTexts : SyncCallbackFails(e)
    \/ \E countFails \in BOOLEAN : SyncFetch(countFails)
    \/ \E f \in SUBSET (0..MaxId), e \in ErrorTexts : SyncBatchFails(f, e)
    \/ \E f \in SUBSET (0..MaxId), ok \in SUBSET (1..MaxId) : SyncBatch(f, ok)
    \/ \E where \in {"list_ids", "delete"}, e \in ErrorTexts :
          SyncCleanupFails(where, e)
    \/ \E listFails \in BOOLEAN, removed \in SUBSET Ids :
          SyncCleanup(listFails, removed)
    \/ \E countFails \in BOOLEAN, e \in ErrorTexts :
          SyncFinishFails(countFails, e)
    \/ \E countFails \in BOOLEAN : SyncFinish(countFails)
    \/ PerformSyncEnd

Spec == Init /\ [][Next]_vars


\* ================================================== user sessions
\* Every browser session runs the script of src/app.py in a thread of its
\* own, with a st.session_state of its own; initialize_services is cached
\* with st.cache_resource, so all sessions call sync on one SyncManager and
\* one index.  A session's run of sync is followed by its position only.
InSync == {"fetch", "batch", "cleanup", "finish"}

\* the positions sync moves to from position p
SyncSuccessors(p, force) ==
    CASE p = "fetch"   -> {"batch", "returned"}
      [] p = "batch"   -> {AfterBatches(force)}
      [] p = "cleanup" -> {"finish"}
      [] p = "finish"  -> {"returned"}
      [] OTHER         -> {}

\* perform_sync of session u up to the call of sync: the session's flag is
\* tested and set
SessionPerformSync(u, force) ==
    /\ session_state[u].position = "idle"
    /\ ~ session_state[u].sync_in_progress
    /\ session_state' =
          [ session_state EXCEPT ![u] =
              [ sync_in_progress |-> TRUE, position |-> "fetch",
                force_full_sync |-> force, error |-> <<>>,
                status |-> "none" ] ]
    /\ UNCHANGED << syncVars, queryVars >>

\* the sync of session u moves on
SessionSyncStep(u, to) ==
    /\ to \in SyncSuccessors(session_state[u].position,
                              session_state[u].force_full_sync)
    /\ session_state' = [ session_state EXCEPT ![u].position = to ]
    /\ UNCHANGED << syncVars, queryVars >>

\* the sync of session u raises
SessionSyncRaises(u, e) ==
    /\ session_state[u].position \in InSync
    /\ session_state' = [ session_state EXCEPT ![u].position = "raised",
                                               ![u].error = e ]
    /\ UNCHANGED << syncVars, queryVars >>

\* perform_sync of session u called while the session's flag is set: the
\* warning is shown and perform_sync returns
SessionPerformSyncRejected(u) ==
    /\ session_state[u].sync_in_progress
    /\ session_state[u].status # "already_in_progress"
    /\ session_state' =
          [ session_state EXCEPT ![u].status = "already_in_progress" ]
    /\ UNCHANGED << syncVars, queryVars >>

\* a perform_sync that clears the flag after the try block instead of in a
\* finally clause: the flag stays set when sync raised
SessionPerformSyncEndNoFinally(u) ==
    /\ session_state[u].position \in {"returned", "raised"}
    /\ session_state' =
          [ session_state EXCEPT ![u] =
              [ IdleSession(Outcome(session_state[u].position,
                                    session_state[u].error))
                EXCEPT !.sync_in_progress =
                          (session_state[u].position = "raised") ] ]
    /\ UNCHANGED << syncVars, queryVars >>

\* perform_sync of session u after sync: the message, the flag cleared
SessionPerformSyncEnd(u) ==
    /\ session_state[u].position \in {"returned", "raised"}
    /\ session_state' =
          [ session_state EXCEPT ![u] =
              IdleSession(Outcome(session_state[u].position,
                                  session_state[u].error)) ]
    /\ UNCHANGED << syncVars, queryVars >>

SessionsNext ==
    \/ \E u \in Sessions, force \in BOOLEAN : SessionPerformSync(u, force)
    \/ \E u \in Sessions, to \in InSync \cup {"returned"} :
          SessionSyncStep(u, to)
    \/ \E u \in Sessions, e \in ErrorTexts : SessionSyncRaises(u, e)
    \/ \E u \in Sessions : SessionPerformSyncRejected(u)
    \/ \E u \in Sessions : SessionPerformSyncEnd(u)

SessionsSpec == Init /\ [][SessionsNext]_vars

\* sync of session u moves on or raises
SessionSyncMoves(u) ==
    \/ \E to \in InSync \cup {"returned"} : SessionSyncStep(u, to)
    \/ \E e \in ErrorTexts : SessionSyncRaises(u, e)

\* The script of a session runs on: every collaborator call of sync returns
\* or fails, so that a running sync moves on, and perform_sync goes on to
\* its handlers and its finally clause once sync has ended.
SessionsFairSpec ==
    /\ SessionsSpec
    /\ \A u \in Sessions : WF_vars(SessionSyncMoves(u))
    /\ \A u \in Sessions : WF_vars(SessionPerformSyncEnd(u))

\* ================================================ query orchestrator
\* The strings the query orchestrator inspects are sequences of characters.
UpperCase == <<"A", "B", "C", "D", "E", "F", "G", "H", "I", "J", "K", "L",
        "M", "N", "O", "P", "Q", "R", "S", "T", "U", "V", "W", "X", "Y", "Z">>
LowerCase == <<"a", "b", "c", "d", "e", "f", "g", "h", "i", "j", "k", "l",
        "m", "n", "o", "p", "q", "r", "s", "t", "u", "v", "w", "x", "y", "z">>
DigitChars == <<"0", "1", "2", "3", "4", "5", "6", "7", "8", "9">>

IsDigit(c) == \E k \in 1..10 : DigitChars[k] = c
IsSpace(c) == c = " "

\* a character the regular expressions count as part of a word (\w)
IsWordChar(c) ==
    \/ \E k \in 1..26 : c = LowerCase[k] \/ c = UpperCase[k]
    \/ IsDigit(c)
    \/ c = "_"

\* str.lower()
StrLower(text) ==
    [ k \in 1..Len(text) |->
        IF \E j \in 1..26 : UpperCase[j] = text[k]
        THEN LowerCase[CHOOSE j \in 1..26 : UpperCase[j] = text[k]]
        ELSE text[k] ]

\* str.strip()
Strip(text) ==
    LET kept == { k \in 1..Len(text) : ~ IsSpace(text[k]) }
    IN  IF kept = {} THEN <<>>
        ELSE SubSeq(text, CHOOSE k \in kept : \A j \in kept : k <= j,
                          CHOOSE k \in kept : \A j \in kept : k >= j)

\* str.startswith(prefix)
StartsWith(text, prefix) ==
    /\ Len(prefix) <= Len(text)
    /\ SubSeq(text, 1, Len(prefix)) = prefix

\* any(p in text for p in patterns)
ContainsAny(text, patterns) ==
    \E k \in 1..Len(patterns) : Contains(text, patterns[k])

\* re.search(r'\b' + re.escape(term) + r'\b', text): term occurs with a word
\* boundary on both sides (the terms begin and end with a letter)
WordSearch(text, term) ==
    \E k \in 0..(Len(text) - Len(term)) :
        /\ \A j \in 1..Len(term) : text[k + j] = term[j]
        /\ k = 0 \/ ~ IsWordChar(text[k])
        /\ k + Len(term) = Len(text) \/ ~ IsWordChar(text[k + Len(term) + 1])

\* str(n) for a natural number
RECURSIVE Str(_)
Str(n) ==
    IF n < 10 THEN << DigitChars[n + 1] >>
    ELSE Str(n \div 10) \o << DigitChars[(n % 10) + 1] >>

\* int(s) for a string of digits
RECURSIVE ParseInt(_)
ParseInt(s) ==
    IF s = <<>> THEN 0
    ELSE 10 * ParseInt(SubSeq(s, 1, Len(s) - 1))
           + ((CHOOSE k \in 1..10 : DigitChars[k] = s[Len(s)]) - 1)

\* ---------------------------------------- _is_greeting_or_conversational
greetings ==
    << <<"h", "i">>, <<"h", "e", "l", "l", "o">>, <<"h", "e", "y">>, <<"g",
            "r", "e", "e", "t", "i", "n", "g", "s">>, <<"g", "o", "o", "d",
            " ", "m", "o", "r", "n", "i", "n", "g">>, <<"g", "o", "o", "d",
            " ", "a", "f", "t", "e", "r", "n", "o", "o", "n">>, <<"g", "o",
            "o", "d", " ", "e", "v", "e", "n", "i", "n", "g">>, <<"h", "o",
            "w", "d", "y">>, <<"h", "i", "y", "a">>, <<"s", "u", "p">>,
            <<"w", "h", "a", "t", "'", "s", " ", "u", "p">>, <<"w", "h", "a",
            "t", "s", " ", "u", "p">> >>

conversational ==
    << <<"h", "o", "w", " ", "a", "r", "e", " ", "y", "o", "u">>, <<"t", "h",
            "a", "n", "k", " ", "y", "o", "u">>, <<"t", "h", "a", "n", "k",
            "s">>, <<"b", "y", "e">>, <<"g", "o", "o", "d", "b", "y", "e">>,
            <<"o", "k">>, <<"o", "k", "a", "y">>, <<"n", "i", "c", "e">>,
            <<"c", "o", "o", "l">>, <<"g", "r", "e", "a", "t">>, <<"a", "w",
            "e", "s", "o", "m", "e">>, <<"p", "e", "r", "f", "e", "c",
            "t">> >>

question_keywords ==
    << <<"s", "h", "o", "w">>, <<"f", "i", "n", "d">>, <<"s", "e", "a", "r",
            "c", "h">>, <<"g", "e", "t">>, <<"l", "i", "s", "t">>, <<"w",
            "h", "a", "t">>, <<"h", "o", "w">>, <<"w", "h", "i", "c", "h">>,
            <<"w", "h", "e", "n">>, <<"w", "h", "o">>, <<"b", "u", "g">>,
            <<"i", "s", "s", "u", "e">>, <<"t", "a", "s", "k">>, <<"w", "o",
            "r", "k", " ", "i", "t", "e", "m">> >>

IsGreetingOrConversational(text) ==
    LET text_lower == Strip(StrLower(text))
    IN  \/ \E k \in 1..Len(greetings) : text_lower = greetings[k]
        \/ \E k \in 1..Len(conversational) : text_lower = conversational[k]
        \/ \E k \in 1..Len(greetings) :
              /\ \/ StartsWith(text_lower, greetings[k] \o <<" ">>)
                 \/ StartsWith(text_lower, greetings[k] \o <<"!">>)
              /\ ~ ContainsAny(text_lower, question_keywords)

\* _get_conversational_response: which of the four canned responses
GetConversationalResponse(text) ==
    LET text_lower == Strip(StrLower(text))
    IN  IF ContainsAny(text_lower, << <<"h", "i">>, <<"h", "e", "l", "l",
            "o">>, <<"h", "e", "y">>, <<"g", "o", "o", "d", " ", "m", "o",
            "r", "n", "i", "n", "g">>, <<"g", "o", "o", "d", " ", "a", "f",
            "t", "e", "r", "n", "o", "o", "n">>, <<"g", "o", "o", "d", " ",
            "e", "v", "e", "n", "i", "n", "g">> >>)
        THEN "canned_hello"
        ELSE IF Contains(text_lower, <<"t", "h", "a", "n",
                "k">>) THEN "canned_welcome"
        ELSE IF ContainsAny(text_lower, << <<"b", "y", "e">>, <<"g", "o",
                "o", "d", "b", "y", "e">> >>)
        THEN "canned_goodbye"
        ELSE "canned_help"

\* ------------------------------------------------- _is_bug_triage_query
triage_patterns ==
    << <<"s", "i", "m", "i", "l", "a", "r", " ", "b", "u", "g">>, <<"d", "u",
            "p", "l", "i", "c", "a", "t", "e", " ", "b", "u", "g">>, <<"s",
            "a", "m", "e", " ", "b", "u", "g">>, <<"r", "e", "l", "a", "t",
            "e", "d", " ", "b", "u", "g">>, <<"a", "l", "r", "e", "a", "d",
            "y", " ", "l", "o", "g", "g", "e", "d">>, <<"a", "l", "r", "e",
            "a", "d", "y", " ", "r", "e", "p", "o", "r", "t", "e", "d">>,
            <<"a", "l", "r", "e", "a", "d", "y", " ", "e", "x", "i", "s",
            "t", "s">>, <<"v", "a", "l", "i", "d", " ", "b", "u", "g">>,
            <<"i", "s", " ", "t", "h", "i", "s", " ", "a", " ", "b", "u",
            "g">>, <<"t", "r", "i", "a", "g", "e">>, <<"r", "e", "l", "a",
            "t", "e", "d", " ", "r", "e", "q", "u", "i", "r", "e", "m", "e",
            "n", "t">>, <<"m", "a", "t", "c", "h", " ", "w", "i", "t", "h",
            " ", "r", "e", "q", "u", "i", "r", "e", "m", "e", "n", "t">>,
            <<"a", "s", "s", "o", "c", "i", "a", "t", "e", "d", " ", "r",
            "e", "q", "u", "i", "r", "e", "m", "e", "n", "t">>, <<"c", "h",
            "e", "c", "k", " ", "f", "o", "r", " ", "d", "u", "p", "l", "i",
            "c", "a", "t", "e">> >>

IsBugTriageQuery(text) == ContainsAny(StrLower(text), triage_patterns)

\* ----------------------------------------------- _is_count_or_list_query
count_patterns ==
    << <<"h", "o", "w", " ", "m", "a", "n", "y">>, <<"c", "o", "u", "n",
            "t">>, <<"n", "u", "m", "b", "e", "r", " ", "o", "f">>, <<"l",
            "i", "s", "t", " ", "a", "l", "l">>, <<"s", "h", "o", "w", " ",
            "a", "l", "l">>, <<"g", "i", "v", "e", " ", "m", "e", " ", "a",
            "l", "l">>, <<"t", "o", "t", "a", "l">> >>

IsCountOrListQuery(text) == ContainsAny(StrLower(text), count_patterns)

\* query's wants_list
list_words == << <<"l", "i", "s", "t">>, <<"s", "h", "o", "w">>, <<"d", "i",
        "s", "p", "l", "a", "y">>, <<"w", "h", "a", "t", " ", "a", "r",
        "e">>, <<"w", "h", "i", "c", "h">> >>

WantsList(text) == ContainsAny(StrLower(text), list_words)

\* ---------------------------------------- _extract_work_item_type_filter
type_mapping ==
    << << <<"b", "u", "g">>, "Bug" >>, << <<"b", "u", "g", "s">>, "Bug" >>,
            << <<"i", "s", "s", "u", "e">>, "Bug" >>, << <<"i", "s", "s",
            "u", "e", "s">>, "Bug" >>, << <<"d", "e", "f", "e", "c", "t">>,
            "Bug" >>, << <<"d", "e", "f", "e", "c", "t", "s">>, "Bug" >>,
            << <<"u", "s", "e", "r", " ", "s", "t", "o", "r", "y">>,
            "User Story" >>, << <<"u", "s", "e", "r", " ", "s", "t", "o",
            "r", "i", "e", "s">>, "User Story" >>, << <<"s", "t", "o", "r",
            "y">>, "User Story" >>, << <<"s", "t", "o", "r", "i", "e", "s">>,
            "User Story" >>, << <<"t", "a", "s", "k">>, "Task" >>, << <<"t",
            "a", "s", "k", "s">>, "Task" >>, << <<"e", "p", "i", "c">>,
            "Epic" >>, << <<"e", "p", "i", "c", "s">>, "Epic" >>, << <<"f",
            "e", "a", "t", "u", "r", "e">>, "Feature" >>, << <<"f", "e", "a",
            "t", "u", "r", "e", "s">>, "Feature" >> >>

\* the value of the first of the entries `hits` of `mapping`, or ""
FirstMapped(mapping, hits) ==
    IF hits = {} THEN ""
    ELSE mapping[CHOOSE k \in hits : \A j \in hits : k <= j][2]

\* the work item type the question names, or "" (None)
ExtractWorkItemTypeFilter(text) ==
    LET question_lower == StrLower(text)
    IN  FirstMapped(type_mapping,
                    { k \in 1..Len(type_mapping) :
                        WordSearch(question_lower, type_mapping[k][1]) })

\* ---------------------------------------- _extract_comprehensive_filters
state_mappings ==
    << << <<"c", "l", "o", "s", "e", "d">>, "Closed" >>, << <<"r", "e", "s",
            "o", "l", "v", "e", "d">>, "Resolved" >>, << <<"c", "o", "m",
            "p", "l", "e", "t", "e", "d">>, "Closed" >>, << <<"d", "o", "n",
            "e">>, "Closed" >>, << <<"a", "c", "t", "i", "v", "e">>,
            "Active" >>, << <<"o", "p", "e", "n">>, "Active" >>, << <<"i",
            "n", " ", "p", "r", "o", "g", "r", "e", "s", "s">>, "Active" >>,
            << <<"n", "e", "w">>, "New" >> >>

\* the state, priority and severity the question names, each "" when absent
ExtractComprehensiveFilters(text) ==
    LET question_lower == StrLower(text)
        has(p) == Contains(question_lower, p)
    IN  [ state |-> FirstMapped(state_mappings,
                                { k \in 1..Len(state_mappings) :
                                    has(state_mappings[k][1]) }),
          priority |->
            IF has(<<"p", "r", "i", "o", "r", "i", "t", "y", " ",
                    "1">>) \/ has(<<"p", "1">>) \/ has(<<"h", "i", "g", "h",
                    "e", "s", "t", " ", "p", "r", "i", "o", "r", "i", "t",
                    "y">>) THEN "1"
            ELSE IF has(<<"p", "r", "i", "o", "r", "i", "t", "y", " ",
                    "2">>) \/ has(<<"p", "2">>) \/ has(<<"h", "i", "g", "h",
                    " ", "p", "r", "i", "o", "r", "i", "t", "y">>) THEN "2"
            ELSE IF has(<<"p", "r", "i", "o", "r", "i", "t", "y", " ",
                    "3">>) \/ has(<<"p", "3">>) \/ has(<<"m", "e", "d", "i",
                    "u", "m", " ", "p", "r", "i", "o", "r", "i", "t",
                    "y">>) THEN "3"
            ELSE IF has(<<"p", "r", "i", "o", "r", "i", "t", "y", " ",
                    "4">>) \/ has(<<"p", "4">>) \/ has(<<"l", "o", "w", " ",
                    "p", "r", "i", "o", "r", "i", "t", "y">>) THEN "4"
            ELSE "",
          severity |->
            IF has(<<"c", "r", "i", "t", "i", "c", "a", "l">>) \/ has(<<"s",
                    "e", "v", "e", "r", "i", "t", "y", " ",
                    "1">>) THEN "1 - Critical"
            ELSE IF has(<<"h", "i", "g", "h", " ", "s", "e", "v", "e", "r",
                    "i", "t", "y">>) \/ has(<<"s", "e", "v", "e", "r", "i",
                    "t", "y", " ", "2">>) THEN "2 - High"
            ELSE IF has(<<"m", "e", "d", "i", "u", "m", " ", "s", "e", "v",
                    "e", "r", "i", "t", "y">>) \/ has(<<"s", "e", "v", "e",
                    "r", "i", "t", "y", " ", "3">>) THEN "3 - Medium"
            ELSE IF has(<<"l", "o", "w", " ", "s", "e", "v", "e", "r", "i",
                    "t", "y">>) \/ has(<<"s", "e", "v", "e", "r", "i", "t",
                    "y", " ", "4">>) THEN "4 - Low"
            ELSE "" ]

NoComprehensiveFilters == [ state |-> "", priority |-> "", severity |-> "" ]

\* --------------------------------------------- _extract_work_item_filter
\* The four patterns, each followed by the group (\d+).  An element of a
\* pattern is a literal (matched ignoring case), \s* or an optional
\* character.
Lit(t) == [ kind |-> "lit", text |-> t ]
Ws     == [ kind |-> "ws",  text |-> <<>> ]
Opt(c) == [ kind |-> "opt", text |-> << c >> ]

patterns ==
    << << Lit(<<"#">>) >>,
       << Lit(<<"W", "I", "-">>) >>,
       << Lit(<<"w", "o", "r", "k">>), Ws, Lit(<<"i", "t", "e", "m">>), Ws,
               Opt("#") >>,
       << Lit(<<"i", "t", "e", "m">>), Ws, Opt("#") >> >>

\* the first position from pos on that holds no whitespace
RECURSIVE SkipSpaces(_, _)
SkipSpaces(text, pos) ==
    IF pos <= Len(text) /\ IsSpace(text[pos])
    THEN SkipSpaces(text, pos + 1) ELSE pos

\* the position after a match of the elements at pos, or 0 when they do not
\* match there
RECURSIVE MatchPrefix(_, _, _)
MatchPrefix(elems, text, pos) ==
    IF elems = <<>> THEN pos
    ELSE LET e == Head(elems)
             n == Len(e.text)
         IN  IF e.kind = "lit"
             THEN IF /\ pos + n - 1 <= Len(text)
                     /\ StrLower(SubSeq(text, pos, pos + n - 1))
                          = StrLower(e.text)
                  THEN MatchPrefix(Tail(elems), text, pos + n) ELSE 0
             ELSE IF e.kind = "ws"
             THEN MatchPrefix(Tail(elems), text, SkipSpaces(text, pos))
             ELSE IF pos <= Len(text) /\ text[pos] = e.text[1]
                  THEN MatchPrefix(Tail(elems), text, pos + 1)
                  ELSE MatchPrefix(Tail(elems), text, pos)

\* the last position of the run of digits that starts at pos
RECURSIVE DigitsEnd(_, _)
DigitsEnd(text, pos) ==
    IF pos + 1 <= Len(text) /\ IsDigit(text[pos + 1])
    THEN DigitsEnd(text, pos + 1) ELSE pos

\* re.findall(pattern, text, re.IGNORECASE): the groups of the matches,
\* scanning from pos
RECURSIVE FindAll(_, _, _)
FindAll(elems, text, pos) ==
    IF pos > Len(text) THEN <<>>
    ELSE LET p == MatchPrefix(elems, text, pos)
         IN  IF p # 0 /\ p <= Len(text) /\ IsDigit(text[p])
             THEN << SubSeq(text, p, DigitsEnd(text, p)) >>
                    \o FindAll(elems, text, DigitsEnd(text, p) + 1)
             ELSE FindAll(elems, text, pos + 1)

\* list(dict.fromkeys(ids)): the first occurrences, in order
Unique(ids) ==
    LET firsts == { k \in 1..Len(ids) : \A j \in 1..(k - 1) : ids[j] # ids[k] }
        RECURSIVE pick(_)
        pick(k) == IF k > Len(ids) THEN <<>>
                   ELSE IF k \in firsts THEN << ids[k] >> \o pick(k + 1)
                   ELSE pick(k + 1)
    IN  pick(1)

\* the ids the question names, as the strings written in it; <<>> is None
ExtractWorkItemFilter(text) ==
    Unique(FindAll(patterns[1], text, 1) \o FindAll(patterns[2], text, 1)
             \o FindAll(patterns[3], text, 1) \o FindAll(patterns[4], text,
                     1))

\* ------------------------------------------------------- filters
\* A filter expression: the conjunction of "is_metadata eq false or
\* is_metadata eq null" with the given conditions; "" and <<>> mean that the
\* condition is absent.
Filter(ids, not_ids, work_item_type, comprehensive) ==
    [ ids |-> ids, not_ids |-> not_ids, work_item_type |-> work_item_type,
      state |-> comprehensive.state, priority |-> comprehensive.priority,
      severity |-> comprehensive.severity ]

\* the index has no priority and no severity field (create_index): a filter
\* that names one is rejected by the Index Store
FilterIsValid(f) == f.priority = "" /\ f.severity = ""

\* filters composed without "is_metadata eq false or is_metadata eq null"
MatchesAlsoMetadata(d, f) ==
    /\ f.ids = <<>> \/ \E k \in 1..Len(f.ids) : f.ids[k] = Str(d.work_item_id)
    /\ ~ \E k \in 1..Len(f.not_ids) : f.not_ids[k] = Str(d.work_item_id)
    /\ f.work_item_type = "" \/ d.work_item_type = f.work_item_type
    /\ f.state = "" \/ d.state = f.state

\* document d satisfies filter f
Matches(d, f) ==
    /\ ~ d.is_metadata
    /\ f.ids = <<>> \/ \E k \in 1..Len(f.ids) : f.ids[k] = Str(d.work_item_id)
    /\ ~ \E k \in 1..Len(f.not_ids) : f.not_ids[k] = Str(d.work_item_id)
    /\ f.work_item_type = "" \/ d.work_item_type = f.work_item_type
    /\ f.state = "" \/ d.state = f.state

\* the sequences of distinct elements of S of length at most n
RECURSIVE DistinctSeqs(_, _)
DistinctSeqs(S, n) ==
    IF n = 0 \/ S = {} THEN { <<>> }
    ELSE { <<>> } \cup
         UNION { { << d >> \o rest : rest \in DistinctSeqs(S \ {d}, n - 1) }
                 : d \in S }

\* hybrid_search: an opaque scored retrieval returns some of the documents
\* that satisfy the filter, at most top_k of them, in an order of its own
HybridSearch(st, f, top_k) ==
    DistinctSeqs({ d \in st : Matches(d, f) }, top_k)

\* get_filtered_count: the number of documents that satisfy the filter; 0
\* when the Index Store fails or rejects the filter
GetFilteredCount(st, f, countFails) ==
    IF countFails \/ ~ FilterIsValid(f) THEN 0
    ELSE Cardinality({ d \in st : Matches(d, f) })

\* ------------------------------------------------ context and references
\* sorted(documents, key=lambda doc: int(doc.get("work_item_id", "0"))):
\* a stable sort by the numeric value of the id
RECURSIVE SortedDocuments(_)
SortedDocuments(documents) ==
    IF documents = <<>> THEN <<>>
    ELSE LET n      == Len(documents)
             d      == documents[n]
             rest   == SortedDocuments(SubSeq(documents, 1, n - 1))
             before == Cardinality({ k \in 1..(n - 1) :
                          ParseInt(Str(rest[k].work_item_id))
                             <= ParseInt(Str(d.work_item_id)) })
         IN  SubSeq(rest, 1, before) \o << d >>
                \o SubSeq(rest, before + 1, n - 1)

\* _build_context: one body per document; the ids in the order of the bodies
BuildContext(documents) ==
    [ k \in 1..Len(documents) |-> SortedDocuments(documents)[k].work_item_id ]

\* references that keep the order of the retrieval
BuildReferencesRetrievalOrder(documents) ==
    [ k \in 1..Len(documents) |-> documents[k].work_item_id ]

\* _build_references: one line per document; the ids in the order of the lines
BuildReferences(documents) ==
    LET sorted_docs == SortedDocuments(documents)
    IN  [ k \in 1..Len(sorted_docs) |-> sorted_docs[k].work_item_id ]

\* the exact count is asked for: a count/list question with some filter
CountIsComputed(is_count, work_item_filter, type_filter, comprehensive) ==
    /\ is_count
    /\ \/ type_filter # ""
       \/ work_item_filter # <<>>
       \/ comprehensive # NoComprehensiveFilters

\* a context that lists the item bodies whatever the question wants
AssembleContextAlwaysItems(documents, count, wants) ==
    [ NoContext EXCEPT
        !.count_block  = IF count # None THEN "with_samples" ELSE "none",
        !.actual_count = count,
        !.items        = BuildContext(documents) ]

\* the context of the general path: the count directive alone, or the item
\* bodies, preceded by the count directive when a count was computed
AssembleContext(documents, count, wants) ==
    IF count # None /\ ~ wants
    THEN [ NoContext EXCEPT !.count_block = "only", !.actual_count = count ]
    ELSE [ NoContext EXCEPT
             !.count_block  = IF count # None THEN "with_samples" ELSE "none",
             !.actual_count = count,
             !.items        = BuildContext(documents) ]

\* references after every stream
YieldsReferencesAlways(wants, is_count) == TRUE

\* the references block is yielded after the stream
YieldsReferences(wants, is_count) == wants \/ ~ is_count

\* the first n elements of a list: s[:n]
FirstN(s, n) == SubSeq(s, 1, Min(n, Len(s)))

\* the context of the triage flow
TriageContext(bug_details, bugs, reqs) ==
    [ NoContext EXCEPT
        !.current_bug  = IF bug_details = <<>> THEN None
                         ELSE bug_details[1].work_item_id,
        !.similar_bugs = [ k \in 1..Len(FirstN(bugs, SimilarBugsShown)) |->
                              bugs[k].work_item_id ],
        !.requirements = [ k \in 1..Len(reqs) |-> reqs[k].work_item_id ],
        !.none_found   = (IF bugs = <<>> THEN {"similar_bugs"} ELSE {})
                          \cup (IF reqs = <<>> THEN {"requirements"}
                                ELSE {}) ]

\* a yielded chunk
Chunk(kind) == [ kind |-> kind, work_item_id |-> None ]
ItemChunk(kind, work_item_id) == [ kind |-> kind,
        work_item_id |-> work_item_id ]

\* triage references that begin with the header whatever was found
TriageReferencesAlwaysHeader(bugs, reqs) ==
    << Chunk("referenced_header") >>
       \o [ k \in 1..Len(FirstN(bugs, SimilarBugsShown)) |->
              ItemChunk("reference", bugs[k].work_item_id) ]
       \o [ k \in 1..Len(reqs) |->
              ItemChunk("reference", reqs[k].work_item_id) ]

\* the chunks of the triage flow's references
TriageReferences(bugs, reqs) ==
    IF bugs = <<>> /\ reqs = <<>> THEN <<>>
    ELSE << Chunk("referenced_header") >>
         \o (IF bugs = <<>> THEN <<>>
             ELSE << Chunk("similar_bugs_header") >>
                  \o [ k \in 1..Len(FirstN(bugs, SimilarBugsShown)) |->
                         ItemChunk("reference", bugs[k].work_item_id) ])
         \o (IF reqs = <<>> THEN <<>>
             ELSE << Chunk("requirements_header") >>
                  \o [ k \in 1..Len(reqs) |->
                         ItemChunk("reference", reqs[k].work_item_id) ])

\* handlers that go on to the references after the error
GenerationErrorChunksThenReferences(r) ==
    << Chunk(IF r = "triage" THEN "error_analyzing_bug"
             ELSE "error_generating_response"),
       Chunk("references_header"), Chunk("references") >>

\* what the except handlers yield
GenerationErrorChunks(r) ==
    << Chunk(IF r = "triage" THEN "error_analyzing_bug"
             ELSE "error_generating_response") >>

\* a query that goes on to the generation whatever was retrieved
AfterRetrievalAlwaysGenerate(documents) == "generate"

\* what query does with the result of the hybrid retrieval
AfterRetrieval(documents) ==
    IF documents = <<>> THEN "no_relevant_items" ELSE "generate"

\* a routing that tests for triage first
RouteTriageFirst(text) ==
    IF IsBugTriageQuery(text) THEN "triage"
    ELSE IF IsGreetingOrConversational(text) THEN "conversational"
    ELSE "general"

\* the path query takes
Route(text) ==
    IF IsGreetingOrConversational(text) THEN "conversational"
    ELSE IF IsBugTriageQuery(text) THEN "triage"
    ELSE "general"

\* ------------------------------------------------------------ questions
Questions ==
    { <<"h", "i">>, <<"T", "h", "a", "n", "k", "s">>, <<"H", "e", "l", "l",
            "o", " ", "t", "h", "e", "r", "e", "!">>, <<"h", "e", "l", "l",
            "o", " ", "t", "r", "i", "a", "g", "e">>, <<"h", "i", " ", "s",
            "h", "o", "w", " ", "b", "u", "g", "s">>, <<"h", "o", "w", " ",
            "m", "a", "n", "y", " ", "b", "u", "g", "s">>, <<"l", "i", "s",
            "t", " ", "a", "l", "l", " ", "b", "u", "g", "s">>, <<"h", "o",
            "w", " ", "m", "a", "n", "y", " ", "i", "t", "e", "m", "s">>,
            <<"c", "o", "u", "n", "t", " ", "c", "l", "o", "s", "e", "d",
            " ", "b", "u", "g", "s">>, <<"w", "h", "i", "c", "h", " ", "a",
            "r", "e", " ", "a", "c", "t", "i", "v", "e">>, <<"s", "t", "a",
            "t", "u", "s", " ", "o", "f", " ", "#", "2">>, <<"c", "o", "m",
            "p", "a", "r", "e", " ", "W", "I", "-", "1", " ", "a", "n", "d",
            " ", "i", "t", "e", "m", " ", "3">>, <<"s", "h", "o", "w", " ",
            "a", "l", "l", " ", "h", "i", "g", "h", " ", "p", "r", "i", "o",
            "r", "i", "t", "y", " ", "t", "a", "s", "k", "s">>, <<"t", "e",
            "l", "l", " ", "m", "e", " ", "a", "b", "o", "u", "t", " ", "l",
            "o", "g", "i", "n">>, <<"i", "s", " ", "#", "1", " ", "a", " ",
            "v", "a", "l", "i", "d", " ", "b", "u", "g">>, <<"t", "r", "i",
            "a", "g", "e", " ", "t", "h", "e", " ", "l", "o", "g", "i", "n",
            " ", "c", "r", "a", "s", "h">>, <<"t", "r", "i", "a", "g", "e",
            " ", "#", "2">>,
            <<"s", "h", "o", "w", " ", "a", "l", "l", " ", "d", "u", "p",
                    "l", "i", "c", "a", "t", "e", " ", "b", "u", "g", "s">>,
            <<"s", "h", "o", "w", " ", "i", "t", "e", "m", " ", "3", " ",
                    "a", "n", "d", " ", "#", "1">> }

\* the index the queries run against: items 1..MaxDocs, embedded, and the
\* metadata record
QueryIndex ==
    { [ ExtractWorkItemData(i, 0, ProjectName) EXCEPT
          !.content_vector = "embedding" ] : i \in 1..MaxDocs }
    \cup { MetadataDoc(0, MaxDocs) }

QueryInit ==
    /\ now = 0
    /\ source = [i \in Ids |-> None]
    /\ indexExists = TRUE
    /\ store = QueryIndex
    /\ NoSyncRunning
    /\ NoSession
    /\ NoQuery

\* the questions by the path query takes on them
ConversationalQuestions == { q \in Questions : Route(q) = "conversational" }
TriageQuestions         == { q \in Questions : Route(q) = "triage" }
\* a triage branch that does not return: triage questions go on to the general
\* path as well
GeneralQuestionsWithTriage ==
    { q \in Questions : Route(q) # "conversational" }
GeneralQuestions        == { q \in Questions : Route(q) = "general" }

\* ------------------------------------------------------- query, by steps
\* query on a conversational question: one canned response
QueryConversational(q) ==
    /\ qpc = "idle"
    /\ q \in ConversationalQuestions
    /\ question' = q
    /\ route' = "conversational"
    /\ yielded' = << Chunk(GetConversationalResponse(q)) >>
    /\ qpc' = "done"
    /\ UNCHANGED << syncVars, session_state, is_count_query, wants_list,
                    actual_count, relevant_docs, similar_bugs, requirements,
                    context, references, calls >>

\* the filter expression of the general path
GeneralFilter(q) ==
    Filter(ExtractWorkItemFilter(q), <<>>, ExtractWorkItemTypeFilter(q),
           ExtractComprehensiveFilters(q))

\* query on the general path whose embedding or retrieval raises: the
\* exception leaves query
QueryGeneralRaises(q, where) ==
    /\ qpc = "idle"
    /\ q \in GeneralQuestions
    /\ question' = q
    /\ route' = "general"
    /\ is_count_query' = IsCountOrListQuery(q)
    /\ wants_list' = WantsList(q)
    /\ calls' = IF where = "generate_embedding"
                THEN << "generate_embedding" >>
                ELSE << "generate_embedding", "hybrid_search" >>
    /\ qpc' = "raised"
    /\ UNCHANGED << syncVars, session_state, actual_count, relevant_docs,
                    similar_bugs, requirements, context, references,
                    yielded >>

\* query on the general path up to the call of the Generation Client:
\* classification, embedding, retrieval, the exact count, the context and
\* the references
QueryGeneral(q, countFails) ==
    /\ qpc = "idle"
    /\ q \in GeneralQuestions
    /\ FilterIsValid(GeneralFilter(q))
    /\ LET is_count      == IsCountOrListQuery(q)
           wants         == WantsList(q)
           search_top_k  == IF is_count THEN CountTopK ELSE TopK
           filter_expr   == GeneralFilter(q)
           counted       ==
               CountIsComputed(is_count, ExtractWorkItemFilter(q),
                               ExtractWorkItemTypeFilter(q),
                               ExtractComprehensiveFilters(q))
       IN  \E documents \in HybridSearch(store, filter_expr, search_top_k) :
           /\ question' = q
           /\ route' = "general"
           /\ is_count_query' = is_count
           /\ wants_list' = wants
           /\ relevant_docs' = documents
           /\ IF AfterRetrieval(documents) = "no_relevant_items"
              THEN /\ ~ countFails
                   /\ calls' = << "generate_embedding", "hybrid_search" >>
                   /\ yielded' = << Chunk("no_relevant_items") >>
                   /\ qpc' = "done"
                   /\ UNCHANGED << actual_count, context, references >>
              ELSE /\ countFails => counted
                   /\ actual_count' =
                        IF counted
                        THEN GetFilteredCount(store, filter_expr, countFails)
                        ELSE None
                   /\ context' = AssembleContext(documents, actual_count',
                                                 wants)
                   /\ references' = BuildReferences(documents)
                   /\ calls' = << "generate_embedding", "hybrid_search" >>
                        \o (IF counted THEN << "get_filtered_count" >>
                            ELSE <<>>)
                        \o << "chat.completions.create" >>
                   /\ yielded' = <<>>
                   /\ qpc' = "generating"
    /\ UNCHANGED << syncVars, session_state, similar_bugs, requirements >>

\* the triage flow in which a call before the Generation Client raises: the
\* handler of _handle_bug_triage yields the error
QueryTriageFails(q, where) ==
    /\ qpc = "idle"
    /\ q \in TriageQuestions
    /\ question' = q
    /\ route' = "triage"
    /\ calls' = IF where = "generate_embedding"
                THEN << "generate_embedding" >>
                ELSE << "generate_embedding", "hybrid_search" >>
    /\ yielded' = GenerationErrorChunks("triage")
    /\ qpc' = "done"
    /\ UNCHANGED << syncVars, session_state, is_count_query, wants_list,
                    actual_count, relevant_docs, similar_bugs, requirements,
                    context, references >>

\* the filter expressions of the three retrievals of the triage flow
BugLookupFilter(bug_id_filter) ==
    Filter(bug_id_filter, <<>>, "Bug", NoComprehensiveFilters)
SimilarBugsFilter(bug_id_filter) ==
    Filter(<<>>, bug_id_filter, "Bug", NoComprehensiveFilters)
RequirementsFilter ==
    Filter(<<>>, <<>>, "User Story", NoComprehensiveFilters)

\* a triage flow that takes the question as the description when the lookup
\* of the named bug finds nothing
HasBugDescriptionOrQuestion(bug_id_filter, bugs) == TRUE

\* bug_description is set: the content of the bug the lookup found, or the
\* question when it names no id
HasBugDescription(bug_id_filter, bugs) ==
    bug_id_filter = <<>> \/ bugs # <<>>

\* the triage flow up to the call of the Generation Client, given what the
\* three retrievals may return: the lookup of the named bug, the two
\* retrievals and the context
TriageFlow(q, found, similar_found, requirements_found) ==
    /\ qpc = "idle"
    /\ q \in TriageQuestions
    /\ LET bug_id_filter == ExtractWorkItemFilter(q)
           lookup == << "generate_embedding", "hybrid_search" >>
       IN  \E bugs \in found :
           /\ question' = q
           /\ route' = "triage"
           /\ relevant_docs' = bugs
           /\ IF ~ HasBugDescription(bug_id_filter, bugs)
              THEN /\ calls' = lookup
                   /\ yielded' = << Chunk("provide_bug_id") >>
                   /\ qpc' = "done"
                   /\ UNCHANGED << similar_bugs, requirements, context >>
              ELSE \E similar \in similar_found, reqs \in requirements_found :
                   /\ similar_bugs' = similar
                   /\ requirements' = reqs
                   /\ context' = TriageContext(bugs, similar, reqs)
                   /\ calls' = (IF bug_id_filter # <<>> THEN lookup ELSE <<>>)
                        \o lookup \o lookup
                        \o << "chat.completions.create" >>
                   /\ yielded' = <<>>
                   /\ qpc' = "generating"
    /\ UNCHANGED << syncVars, session_state, is_count_query, wants_list,
                    actual_count, references >>

\* the triage flow over an opaque retrieval
QueryTriage(q) ==
    TriageFlow(q,
               IF ExtractWorkItemFilter(q) # <<>>
               THEN HybridSearch(store,
                                 BugLookupFilter(ExtractWorkItemFilter(q)),
                                 BugLookupTopK)
               ELSE { <<>> },
               HybridSearch(store,
                            SimilarBugsFilter(ExtractWorkItemFilter(q)),
                            SimilarBugsTopK),
               HybridSearch(store, RequirementsFilter, RequirementsTopK))

\* the generation chunks yielded so far
GenerationChunks ==
    { k \in 1..Len(yielded) : yielded[k].kind = "generation" }

\* the stream delivers a chunk with content, which is yielded
GenerationChunk ==
    /\ qpc = "generating"
    /\ Cardinality(GenerationChunks) < MaxChunks
    /\ yielded' = Append(yielded, Chunk("generation"))
    /\ UNCHANGED << syncVars, session_state, question, qpc, route,
                    is_count_query, wants_list, actual_count, relevant_docs,
                    similar_bugs, requirements, context, references, calls >>

\* the Generation Client fails, at the call or in the stream
GenerationFails ==
    /\ qpc = "generating"
    /\ yielded' = yielded \o GenerationErrorChunks(route)
    /\ qpc' = "done"
    /\ UNCHANGED << syncVars, session_state, question, route,
                    is_count_query, wants_list, actual_count, relevant_docs,
                    similar_bugs, requirements, context, references, calls >>

\* the stream ends: the references follow
GenerationEnds ==
    /\ qpc = "generating"
    /\ yielded' = yielded \o
          (IF route = "triage"
           THEN TriageReferences(similar_bugs, requirements)
           ELSE IF YieldsReferences(wants_list, is_count_query)
           THEN << Chunk("references_header"), Chunk("references") >>
           ELSE <<>>)
    /\ qpc' = "done"
    /\ UNCHANGED << syncVars, session_state, question, route,
                    is_count_query, wants_list, actual_count, relevant_docs,
                    similar_bugs, requirements, context, references, calls >>

\* the caller has consumed the generator; the question stays in the chat
\* history
QueryReturn ==
    /\ qpc \in {"done", "raised"}
    /\ UNCHANGED question
    /\ qpc' = "idle"
    /\ route' = "none"
    /\ is_count_query' = FALSE
    /\ wants_list' = FALSE
    /\ actual_count' = None
    /\ relevant_docs' = <<>>
    /\ similar_bugs' = <<>>
    /\ requirements' = <<>>
    /\ context' = NoContext
    /\ references' = <<>>
    /\ yielded' = <<>>
    /\ calls' = <<>>
    /\ UNCHANGED << syncVars, session_state >>

QueryNext ==
    \/ \E q \in Questions : QueryConversational(q)
    \/ \E q \in Questions,
          where \in {"generate_embedding", "hybrid_search"} :
          QueryGeneralRaises(q, where)
    \/ \E q \in Questions, countFails \in BOOLEAN : QueryGeneral(q,
            countFails)
    \/ \E q \in Questions,
          where \in {"generate_embedding", "hybrid_search"} :
          QueryTriageFails(q, where)
    \/ \E q \in Questions : QueryTriage(q)
    \/ GenerationChunk
    \/ GenerationFails
    \/ GenerationEnds
    \/ QueryReturn

QuerySpec == QueryInit /\ [][QueryNext]_vars

\* ------------------------------------------- triage over a larger index
\* The triage flow on an index of MaxTriageDocs items, enough for a
\* similar-bugs retrieval of more than SimilarBugsShown bugs.  The retrieval
\* is ranked by id here: it returns the first n of the documents that satisfy
\* the filter, for some n up to top_k (one of the results HybridSearch
\* allows), which keeps the number of results small.
RankedSearch(st, f, top_k) ==
    LET M      == { d \in st : Matches(d, f) }
        ranked == [ k \in 1..Cardinality(M) |->
                      CHOOSE d \in M :
                        Cardinality({ e \in M :
                            e.work_item_id < d.work_item_id }) = k - 1 ]
    IN  { FirstN(ranked, n) : n \in 0..Min(top_k, Cardinality(M)) }

TriageIndex ==
    { [ ExtractWorkItemData(i, 0, ProjectName) EXCEPT
          !.content_vector = "embedding" ] : i \in 1..MaxTriageDocs }
    \cup { MetadataDoc(0, MaxTriageDocs) }

TriageInit ==
    /\ now = 0
    /\ source = [i \in Ids |-> None]
    /\ indexExists = TRUE
    /\ store = TriageIndex
    /\ NoSyncRunning
    /\ NoSession
    /\ NoQuery

\* the triage flow over the ranked retrieval
QueryTriageRanked(q) ==
    TriageFlow(q,
               IF ExtractWorkItemFilter(q) # <<>>
               THEN RankedSearch(store,
                                 BugLookupFilter(ExtractWorkItemFilter(q)),
                                 BugLookupTopK)
               ELSE { <<>> },
               RankedSearch(store,
                            SimilarBugsFilter(ExtractWorkItemFilter(q)),
                            SimilarBugsTopK),
               RankedSearch(store, RequirementsFilter, RequirementsTopK))

TriageNext ==
    \/ \E q \in Questions,
          where \in {"generate_embedding", "hybrid_search"} :
          QueryTriageFails(q, where)
    \/ \E q \in Questions : QueryTriageRanked(q)
    \/ GenerationChunk
    \/ GenerationFails
    \/ GenerationEnds
    \/ QueryReturn

TriageSpec == TriageInit /\ [][TriageNext]_vars


\* ------------------------------------------------- progress of a sync
\* The percents sync passes to progress_callback are a function of the
\* number of fetched items, the batch size and force_full_sync; the runs
\* below follow sync over up to MaxItems fetched items and record them.
\* 20 + int((synced_count / total_items) * 60) and
\* 20 + int((synced_count / total_items) * 70)
EmbeddingPct(synced, total_items) == 20 + ((synced * 60) \div total_items)
IndexingPct(synced, total_items)  == 20 + ((synced * 70) \div total_items)

\* what the run leaves alone
ProgressUnchanged ==
    UNCHANGED << now, source, store, last_sync_time, total_count,
                 current_time, error, appVars, histVars, srcChangedInRun,
                 prev, fetchedAt, events, session_state, queryVars >>

\* sync up to the batch loop: the checkpoints "init", "index" (when the
\* index is created), "fetch", and "complete" or "fetched"
ProgressBegin(n, bs, force, create) ==
    /\ pc = "idle"
    /\ progress = <<>>
    /\ indexExists = ~ create
    /\ indexExists' = TRUE
    /\ force_full_sync' = force
    /\ batch_size' = bs
    /\ work_items' = [ k \in 1..n |-> ExtractWorkItemData(k, 0, ProjectName) ]
    /\ synced_count' = 0
    /\ progress' = << 0 >> \o (IF create THEN << 5 >> ELSE <<>>) \o << 10 >>
                      \o (IF n = 0 THEN << 100 >> ELSE << 20 >>)
    /\ pc' = IF n = 0 THEN "returned" ELSE "batch"
    /\ ProgressUnchanged

\* one iteration of the batch loop: the checkpoints "embedding" and
\* "indexing"
ProgressBatch ==
    /\ pc = "batch"
    /\ progress' = progress \o
          << EmbeddingPct(synced_count, Len(work_items)),
             IndexingPct(synced_count, Len(work_items)) >>
    /\ synced_count' = BatchEnd
    /\ pc' = IF BatchEnd < Len(work_items) THEN "batch"
             ELSE AfterBatches(force_full_sync)
    /\ UNCHANGED << indexExists, force_full_sync, batch_size, work_items >>
    /\ ProgressUnchanged

\* deletion reconciliation: the checkpoint "cleanup"
ProgressCleanup ==
    /\ pc = "cleanup"
    /\ progress' = Append(progress, 95)
    /\ pc' = "finish"
    /\ UNCHANGED << indexExists, force_full_sync, batch_size, work_items,
                    synced_count >>
    /\ ProgressUnchanged

\* step 7 has no checkpoint
ProgressFinish ==
    /\ pc = "finish"
    /\ pc' = "returned"
    /\ UNCHANGED << indexExists, force_full_sync, batch_size, work_items,
                    synced_count, progress >>
    /\ ProgressUnchanged

ProgressInit ==
    /\ now = 0
    /\ source = [i \in Ids |-> None]
    /\ indexExists \in BOOLEAN
    /\ store = {}
    /\ NoSyncRunning
    /\ NoSession
    /\ NoQuery

ProgressNext ==
    \/ \E n \in 0..MaxItems, bs \in 1..MaxBatch, force \in BOOLEAN,
          create \in BOOLEAN : ProgressBegin(n, bs, force, create)
    \/ ProgressBatch
    \/ ProgressCleanup
    \/ ProgressFinish

ProgressSpec == ProgressInit /\ [][ProgressNext]_vars

\* ======================================================= properties
\* the native ids of the items the fetch returned
FetchedWorkItemIds == { work_items[k].work_item_id : k \in 1..Len(work_items) }

\* the native ids of the item records in the index
IndexedIds == { d.work_item_id : d \in ItemDocs(store) }

ItemKey(w) == DocId(ProjectName, w)

\* C1: after a sync(forceFull=true) that returns, with no collaborator
\* failure and no change of the source during the run, no item record is left
\* in the index whose native id is absent from the Item Source, whatever the
\* number of fetched items (zero included).
C1_FullSyncLeavesNoAbsentItem ==
    (pc = "returned" /\ force_full_sync /\ ~ faulted /\ ~ srcChangedInRun)
        => IndexedIds \subseteq SourceIds

\* C2: when the upsert of batch k raises, sync raises, every item of the
\* batches before k is in the index, this run wrote no item of batch k or of
\* a later batch, deleted nothing and did not write the metadata record.
C2_FailedUpsertLeavesPrefix ==
    (pc = "raised" /\ raisedAt = "upsert")
        => /\ \A k \in 1..synced_count :
                 work_items[k].id \in Keys(store)
           /\ upserted \subseteq
                 { work_items[k].work_item_id : k \in 1..synced_count }
           /\ deleted = {}
           /\ ~ metaWritten

\* C3: sync returns normally only if every item of every batch was written
\* to the index by this run.
C3_ReturnMeansAllWritten ==
    pc = "returned" => FetchedWorkItemIds \subseteq upserted

\* C4: with lastSyncTime = T the delta fetch returns exactly the source items
\* changed strictly later than T, and a delta run upserts fetched items only
\* (so no item changed at or before T is re-indexed).
C4_DeltaFetchStep ==
    (pc = "fetch" /\ pc' \in {"batch", "returned"} /\ last_sync_time # None)
        => { work_items'[k].work_item_id : k \in 1..Len(work_items') }
              = { i \in Ids : source[i] # None /\ source[i] > last_sync_time }

C4_DeltaUpsertsOnlyLater ==
    (pc # "idle" /\ last_sync_time # None)
        => \A w \in upserted :
              \E k \in 1..Len(work_items) :
                 /\ work_items[k].work_item_id = w
                 /\ work_items[k].changed_date > last_sync_time

C4_DeltaFetchExact ==
    [][C4_DeltaFetchStep]_vars /\ [] C4_DeltaUpsertsOnlyLater

\* C4 witness: a delta fetch has discarded an item changed on the day of T
\* at or before T, and returned an item changed after T.
C4_Witness ==
    /\ pc = "batch"
    /\ last_sync_time # None
    /\ \E i \in SourceIds :
          /\ DateOnly(source[i]) = DateOnly(last_sync_time)
          /\ source[i] <= last_sync_time
          /\ i \notin FetchedWorkItemIds
    /\ \E j \in FetchedWorkItemIds : source[j] > last_sync_time

\* C5: no step of a sync run with forceFull=false removes a record from the
\* index, and a record of an item the fetch did not return (an item absent
\* from the source is never returned) stays as it is.
C5_DeltaStep ==
    (pc # "idle" /\ ~ force_full_sync)
        => /\ Keys(store) \subseteq Keys(store')
           /\ \A d \in ItemDocs(store) :
                 d.work_item_id \notin
                     { work_items'[k].work_item_id :
                          k \in 1..Len(work_items') }
                   => d \in store'
           /\ (pc = "fetch" /\ pc' \in {"batch", "returned"}) =>
                 { work_items'[k].work_item_id :
                      k \in 1..Len(work_items') } \subseteq SourceIds

C5_DeltaNeverDeletes == [][C5_DeltaStep]_vars

\* C5 witness: a delta sync that indexed something has returned while an
\* indexed item is absent from the Item Source.
C5_Witness ==
    /\ pc = "returned"
    /\ ~ force_full_sync
    /\ upserted # {}
    /\ IndexedIds \ SourceIds # {}

\* C6: a second sync(forceFull=true) in succession, with no change of the
\* source and no collaborator failure, returns the same totalIndexCount and
\* leaves the same item keys, one record per key.
C6_FullSyncIdempotent ==
    (/\ pc = "returned" /\ force_full_sync
     /\ ~ faulted /\ ~ srcChangedInRun
     /\ prev.kind = "full_ok")
        => /\ total_count = prev.total
           /\ Keys(ItemDocs(store)) = prev.keys
           /\ Cardinality(ItemDocs(store)) = Cardinality(Keys(ItemDocs(store)))

\* C6 witness: the second of two such full syncs has returned after
\* indexing items.
C6_Witness ==
    /\ pc = "returned" /\ force_full_sync
    /\ ~ faulted /\ ~ srcChangedInRun
    /\ prev.kind = "full_ok"
    /\ upserted # {}
    /\ prev.total > 0

\* C7: when every batch was upserted and the metadata write of step 7
\* fails, the items the run wrote stay
\* in the index and perform_sync reports the "sync completed but metadata
\* update failed" outcome, whatever the error text.
C7_Step ==
    (/\ pc = "raised" /\ raisedAt = "metadata" /\ pc' = "idle"
     /\ FetchedWorkItemIds \subseteq upserted)
        => /\ store' = store
           /\ \A w \in upserted : ItemKey(w) \in Keys(store')
           /\ status' = "metadata_warning"

C7_MetadataFailureReported == [][C7_Step]_vars

\* C8: the sync that follows a run whose item upserts all succeeded and
\* whose metadata write failed, and returns
\* (without a collaborator failure) leaves exactly one metadata record, with
\* that sync's completion time and the index's item count.
C8_NextSyncHealsMetadata ==
    (pc = "returned" /\ prev.kind = "meta_failed" /\ ~ faulted)
        => MetaDocs(store) =
              { MetadataDoc(completedAt, Cardinality(ItemDocs(store))) }

\* C9: when sync has written the metadata record, the work_item_count it
\* stored and the totalIndexCount it returns equal the number of item
\* records in the index.
C9_CountIsAuthoritative ==
    (pc = "returned" /\ metaWritten)
        => /\ total_count = Cardinality(ItemDocs(store))
           /\ \A m \in MetaDocs(store) :
                 m.work_item_count = Cardinality(ItemDocs(store))

\* C10: when the fetch returns no item, sync still overwrites the metadata
\* record with the current time and the recomputed count and returns
\* (0, totalIndexCount).
C10_EmptyFetchWritesMetadata ==
    (pc = "returned" /\ work_items = <<>>)
        => /\ synced_count = 0
           /\ metaWritten
           /\ MetaDocs(store) = { MetadataDoc(completedAt, total_count) }


\* C11: a Vectorizer failure does not stop the batch: every item of the
\* batch gets exactly one vector, in input order, the items of a failed
\* sub-batch get the zero vector, and when the Vectorizer was the only
\* collaborator that failed every item of the batch is upserted.
C11_Step ==
    (pc = "batch" /\ synced_count' > synced_count)
        => LET B == (synced_count + 1)..synced_count'
               sub(k) == (k - synced_count - 1) \div ApiBatchSize
           IN  /\ pc' # "raised"
               /\ Len(work_items') = Len(work_items)
               /\ \A k \in B :
                     /\ work_items'[k].content_vector \in {"zero", "embedding"}
                     /\ work_items'[k] =
                          [ work_items[k] EXCEPT !.content_vector =
                                work_items'[k].content_vector ]
               /\ \A k, j \in B :
                     sub(k) = sub(j) =>
                        work_items'[k].content_vector
                           = work_items'[j].content_vector
               /\ ( /\ events' = events + 1
                    /\ \E k \in B : work_items'[k].content_vector = "zero" )
                    => \A k \in B : work_items'[k] \in store'

C12_CallbackNeverAffectsSync ==
    ~ (pc = "raised" /\ raisedAt = "callback")


\* C13: at no time do two executions of sync overlap against the index, also
\* when several user sessions share the cached SyncManager.
C13_NoOverlappingSync ==
    Cardinality({ u \in Sessions : session_state[u].position \in InSync }) <= 1


\* the positions in `yielded` of the chunks of the kinds S
ChunksOf(S) == { k \in 1..Len(yielded) : yielded[k].kind \in S }

\* query has made the collaborator call c
Called(c) == \E k \in 1..Len(calls) : calls[k] = c

ReferenceKinds ==
    { "references_header", "references", "referenced_header",
      "similar_bugs_header", "requirements_header", "reference" }

\* the general path is past a retrieval that returned
GeneralRetrieved ==
    /\ route = "general"
    /\ qpc \in {"generating", "done"}
    /\ Called("hybrid_search")

\* the native ids of the retrieved documents
RetrievedIds == { relevant_docs[k].work_item_id : k \in 1..Len(relevant_docs) }

\* ids is ascending and lists every retrieved item exactly once
ListsRetrievedAscending(ids) ==
    /\ Len(ids) = Len(relevant_docs)
    /\ { ids[k] : k \in 1..Len(ids) } = RetrievedIds
    /\ \A k \in 1..(Len(ids) - 1) : ids[k] < ids[k + 1]

\* C14: on the general path, when the hybrid retrieval returns no item, query
\* yields the fixed no-relevant-items message alone and ends: the Generation
\* Client and the filtered count are never called and no references follow.
C14_NoDocsOnlyMessage ==
    (GeneralRetrieved /\ relevant_docs = <<>>)
        => /\ qpc = "done"
           /\ yielded = << Chunk("no_relevant_items") >>
           /\ ~ Called("chat.completions.create")
           /\ ~ Called("get_filtered_count")

\* C14 witness: a count question with a type filter whose retrieval returned
\* nothing has ended.
C14_Witness ==
    /\ GeneralRetrieved
    /\ relevant_docs = <<>>
    /\ is_count_query
    /\ ExtractWorkItemTypeFilter(question) # ""
    /\ qpc = "done"

\* C15: on every question classified conversational query yields exactly one
\* canned chunk and calls neither the Vectorizer, the Index Store nor the
\* Generation Client.
C15_ConversationalOneChunk ==
    (qpc # "idle" /\ IsGreetingOrConversational(question))
        => /\ route = "conversational"
           /\ qpc = "done"
           /\ Len(yielded) = 1
           /\ yielded[1].kind \in { "canned_hello", "canned_welcome",
                                    "canned_goodbye", "canned_help" }
           /\ calls = <<>>

\* C15 witness: a greeting followed by a triage word has been answered with
\* the canned response.
C15_Witness ==
    /\ qpc = "done"
    /\ route = "conversational"
    /\ IsBugTriageQuery(question)
    /\ yielded = << Chunk("canned_hello") >>

\* C16: when an exact count was computed, the context is the count directive
\* alone, with no item body, if the question wants no listing, and the count
\* directive followed by the bodies of the retrieved items if it wants one.
C16_CountContext ==
    (GeneralRetrieved /\ actual_count # None)
        => /\ context.actual_count = actual_count
           /\ IF ~ WantsList(question)
              THEN /\ context.count_block = "only"
                   /\ context.items = <<>>
              ELSE /\ context.count_block = "with_samples"
                   /\ Len(context.items) = Len(relevant_docs)
                   /\ { context.items[k] : k \in 1..Len(context.items) }
                        = RetrievedIds

\* C16 witness: a count was computed for a question that wants no listing.
C16_Witness ==
    /\ GeneralRetrieved
    /\ actual_count # None
    /\ actual_count > 0
    /\ ~ wants_list
    /\ relevant_docs # <<>>

\* C17: on the general path the references block is yielded only after the
\* last generation chunk, and only when the question wants a listing or is
\* no count/list question; a count/list question with no listing word
\* yields no references block.
C17_ReferencesAfterStream ==
    route = "general"
        => /\ \A k \in ChunksOf(ReferenceKinds) :
                 /\ qpc = "done"
                 /\ \A j \in ChunksOf({"generation"}) : j < k
                 /\ WantsList(question) \/ ~ IsCountOrListQuery(question)
           /\ (IsCountOrListQuery(question) /\ ~ WantsList(question))
                 => ChunksOf(ReferenceKinds) = {}

\* C17 witness: the references block has followed two generation chunks.
C17_Witness ==
    /\ route = "general"
    /\ qpc = "done"
    /\ Cardinality(ChunksOf({"generation"})) >= 2
    /\ yielded[Len(yielded)].kind = "references"

\* C18: when the Generation Client fails on the general path, at the call or
\* in the stream, query does not raise: the chunks received so far stay
\* yielded, one inline error chunk is the last chunk, and neither a
\* generation chunk nor the references block follows.
C18_ErrorChunkIsLast ==
    (route = "general" /\ ChunksOf({"error_generating_response"}) # {})
        => /\ qpc = "done"
           /\ ChunksOf({"error_generating_response"}) = { Len(yielded) }
           /\ ChunksOf({"generation"}) = 1..(Len(yielded) - 1)

C18_FailureStep ==
    (route = "general" /\ qpc = "generating" /\ qpc' # "generating")
        => /\ qpc' = "done"
           /\ SubSeq(yielded', 1, Len(yielded)) = yielded

C18_GenerationFailureInline ==
    [] C18_ErrorChunkIsLast /\ [][C18_FailureStep]_vars

\* C18 witness: the Generation Client failed after a chunk had been yielded.
C18_Witness ==
    /\ route = "general"
    /\ qpc = "done"
    /\ Len(yielded) >= 2
    /\ yielded[Len(yielded)].kind = "error_generating_response"

C20_TriageNothingFound ==
    ( /\ route = "triage"
      /\ Called("chat.completions.create")
      /\ similar_bugs = <<>>
      /\ requirements = <<>> )
        => /\ context.none_found = {"similar_bugs", "requirements"}
           /\ context.similar_bugs = <<>>
           /\ context.requirements = <<>>
           /\ ChunksOf(ReferenceKinds) = {}

\* C20 witness: a triage whose retrievals found nothing has streamed its
\* answer to the end.
C20_Witness ==
    /\ route = "triage"
    /\ qpc = "done"
    /\ Called("chat.completions.create")
    /\ similar_bugs = <<>>
    /\ requirements = <<>>
    /\ yielded # <<>>
    /\ ChunksOf({"error_analyzing_bug"}) = {}

\* ------------------------------------------------------------------ C21
\* C21: query tries the routes in the order conversational, triage, general
\* and takes the first that matches: a question that is conversational gets
\* the canned response even when it also has a triage phrase; a triage
\* question never reaches the filter extraction or the count logic of the
\* general path; a question that is neither takes the general retrieval.
C21_FirstMatchingRoute ==
    qpc # "idle" =>
        /\ IsGreetingOrConversational(question) =>
              /\ route = "conversational"
              /\ calls = <<>>
        /\ (~ IsGreetingOrConversational(question)
               /\ IsBugTriageQuery(question)) =>
              /\ route = "triage"
              /\ ~ is_count_query
              /\ ~ wants_list
              /\ actual_count = None
              /\ ~ Called("get_filtered_count")
              /\ context.count_block = "none"
              /\ references = <<>>
        /\ (~ IsGreetingOrConversational(question)
               /\ ~ IsBugTriageQuery(question)) =>
              /\ route = "general"
              /\ Called("generate_embedding")

\* a triage question that is a count/list question with a type filter has
\* been answered by the triage flow
C21_Witness ==
    /\ qpc = "done"
    /\ route = "triage"
    /\ IsCountOrListQuery(question)
    /\ ExtractWorkItemTypeFilter(question) # ""
    /\ ChunksOf({"generation"}) # {}

\* ------------------------------------------------------------------ C22
\* C22: on the general path the filtered count is requested exactly when the
\* question is a count/list question and an id, type or state/priority/
\* severity filter is present, and the number of the count block is the
\* exact number of index records that satisfy the combined filter: never the
\* size of the retrieved page, never a substitute value.
C22_ExactFilteredCount ==
    (route = "general" /\ qpc \in {"generating", "done"}
       /\ relevant_docs # <<>>) =>
        /\ Called("get_filtered_count") <=>
              /\ IsCountOrListQuery(question)
              /\ \/ ExtractWorkItemFilter(question) # <<>>
                 \/ ExtractWorkItemTypeFilter(question) # ""
                 \/ ExtractComprehensiveFilters(question)
                      # NoComprehensiveFilters
        /\ context.count_block # "none" =>
              context.actual_count =
                 Cardinality({ d \in store :
                                 Matches(d, GeneralFilter(question)) })

\* ------------------------------------------------------------------ C23
\* C23: perform_sync reports "sync completed but metadata update failed"
\* only for runs in which every item batch was upserted: a run that failed in
\* the fetch, in an item upsert or in the deletion step is reported as
\* "sync failed", whatever the text of its error.
C23_Step ==
    (pc = "raised" /\ pc' = "idle") =>
        /\ status' = "metadata_warning" =>
              /\ raisedAt = "metadata"
              /\ FetchedWorkItemIds \subseteq upserted
        /\ raisedAt \in {"fetch", "upsert", "list_ids", "delete"} =>
              status' = "failed"
C23_WarningOnlyAfterUpserts == [][C23_Step]_vars

\* ------------------------------------------------------------------ C24
\* the ids a triage answer lists as references
ReferencedIds ==
    { yielded[k].work_item_id : k \in ChunksOf({"reference"}) }

\* the ids of a block of the triage context
BlockIds(block) == { block[k] : k \in 1..Len(block) }

\* C24: in the triage flow every bug the similar-bugs retrieval returned
\* (up to SimilarBugsTopK) is in the numbered similar-bugs block of the
\* context and in the references, and every user story the requirements
\* retrieval returned (up to RequirementsTopK) is in the requirements block
\* and in the references.
C24_AllRetrievedShown ==
    (route = "triage" /\ Called("chat.completions.create")) =>
        /\ \A k \in 1..Len(similar_bugs) :
              similar_bugs[k].work_item_id \in BlockIds(context.similar_bugs)
        /\ \A k \in 1..Len(requirements) :
              requirements[k].work_item_id \in BlockIds(context.requirements)
        /\ (qpc = "done" /\ ChunksOf({"error_analyzing_bug"}) = {}) =>
              /\ \A k \in 1..Len(similar_bugs) :
                    similar_bugs[k].work_item_id \in ReferencedIds
              /\ \A k \in 1..Len(requirements) :
                    requirements[k].work_item_id \in ReferencedIds

\* ------------------------------------------------------------------ C25
\* the filter _extract_work_item_filter returns for a list of ids: nothing,
\* one equality, or the parenthesized disjunction of one equality per id
IdFilterExpr(ids) ==
    IF ids = <<>> THEN <<>>
    ELSE IF Len(ids) = 1 THEN << "work_item_id eq", ids[1] >>
    ELSE << "(" >>
         \o [ k \in 1..(3 * Len(ids) - 1) |->
                IF k % 3 = 1 THEN "work_item_id eq"
                ELSE IF k % 3 = 2 THEN ids[(k + 1) \div 3]
                ELSE "or" ]
         \o << ")" >>

\* the ids a pattern matches in the text with the positions at which the
\* matches begin, scanning from pos
RECURSIVE C25_MatchesAt(_, _, _)
C25_MatchesAt(elems, text, pos) ==
    IF pos > Len(text) THEN <<>>
    ELSE LET p == MatchPrefix(elems, text, pos)
         IN  IF p # 0 /\ p <= Len(text) /\ IsDigit(text[p])
             THEN << [ at |-> pos, id |-> SubSeq(text, p, DigitsEnd(text, p)) ] >>
                    \o C25_MatchesAt(elems, text, DigitsEnd(text, p) + 1)
             ELSE C25_MatchesAt(elems, text, pos + 1)

\* the ids the text names, in the order in which the text names them
C25_IdsAsSeen(text) ==
    LET found == C25_MatchesAt(patterns[1], text, 1)
                   \o C25_MatchesAt(patterns[2], text, 1)
                   \o C25_MatchesAt(patterns[3], text, 1)
                   \o C25_MatchesAt(patterns[4], text, 1)
        RECURSIVE from(_)
        from(pos) ==
            IF pos > Len(text) THEN <<>>
            ELSE LET here == { k \in 1..Len(found) : found[k].at = pos }
                 IN  (IF here = {} THEN <<>>
                      ELSE << found[CHOOSE k \in here :
                                      \A j \in here : k <= j].id >>)
                     \o from(pos + 1)
    IN  Unique(from(1))

\* C25: the id filter is absent when no pattern matches, one equality when
\* the question names one distinct id, and otherwise the parenthesized
\* disjunction of exactly one equality per distinct id, in the order in which
\* the ids are first seen in the question; an id matched by several patterns
\* or named several times appears once.
C25_IdFilterFirstSeen ==
    question # <<>> =>
        IdFilterExpr(ExtractWorkItemFilter(question))
           = IdFilterExpr(C25_IdsAsSeen(question))

\* ------------------------------------------------------------------ C26
\* C26: no update is lost between syncs: a delta sync fetches every source
\* item whose changed timestamp is later than the moment at which the run
\* before it fetched from the Item Source, also when the change was made
\* before that run recorded its completion time in the metadata record.
C26_Step ==
    (pc = "fetch" /\ pc' \in {"batch", "returned"}
       /\ last_sync_time # None /\ fetchedAt # None) =>
        \A i \in SourceIds :
            source[i] > fetchedAt =>
                \E k \in 1..Len(work_items') :
                    work_items'[k].work_item_id = i

C26_NoLostUpdate == [][C26_Step]_vars

\* ------------------------------------------------------------------ C27
\* C27: within one run of sync the percents passed to the progress callback
\* lie in 0..100 and never decrease, for every number of fetched items and
\* every batch size of at least 1.
C27_ProgressMonotone ==
    /\ \A k \in 1..Len(progress) : progress[k] \in 0..100
    /\ \A k \in 1..(Len(progress) - 1) : progress[k] <= progress[k + 1]

\* ------------------------------------------------------------------ C28
\* the filter expressions query issues for the questions: those of the
\* general path and those of the three retrievals of the triage flow
QueryFilters ==
    { GeneralFilter(q) : q \in { g \in GeneralQuestions :
                                   FilterIsValid(GeneralFilter(g)) } }
    \cup { BugLookupFilter(ExtractWorkItemFilter(q)) : q \in TriageQuestions }
    \cup { SimilarBugsFilter(ExtractWorkItemFilter(q)) :
             q \in TriageQuestions }
    \cup { RequirementsFilter }

\* the metadata record is no item for any listing, count or retrieval
C28_MetadataIsNoItem ==
    /\ METADATA_WID \notin IndexAllWorkItemIds(store, FALSE)
    /\ GetWorkItemCount(store, FALSE) = Cardinality(store \ MetaDocs(store))
    /\ \A f \in QueryFilters :
          /\ \A docs \in HybridSearch(store, f, CountTopK) :
                \A k \in 1..Len(docs) : docs[k] \notin MetaDocs(store)
          /\ GetFilteredCount(store, f, FALSE) =
                Cardinality({ d \in store \ MetaDocs(store) : Matches(d, f) })

\* a step keeps the metadata record, and deletion reconciliation deletes
\* item documents only
C28_Step ==
    /\ MetaDocs(store) # {} => MetaDocs(store') # {}
    /\ (pc = "cleanup" /\ pc' = "finish") =>
          /\ store \ store' \subseteq ItemDocs(store)
          /\ METADATA_WID \notin deleted'

\* C28: after any sequence of sync runs the metadata record, once written, is
\* never removed by deletion reconciliation and never counted as an item: it
\* is not in the index id set reconciliation uses, not in the total index
\* count, and in no retrieval and no filtered count query issues.
C28_MetadataRecordKept == [] C28_MetadataIsNoItem /\ [][C28_Step]_vars

\* reconciliation has deleted an item of an index that holds the metadata
\* record and an item
C28_Witness ==
    /\ pc = "finish"
    /\ deleted # {}
    /\ MetaDocs(store) # {}
    /\ ItemDocs(store) # {}

\* ------------------------------------------------------------------ C29
\* perform_sync of a session ends: the flag is cleared; a request met by a
\* set flag starts no sync and leaves the flag set
C29_Step ==
    \A u \in Sessions :
        /\ (session_state[u].position \in {"returned", "raised"}
              /\ session_state'[u].position = "idle") =>
              ~ session_state'[u].sync_in_progress
        /\ (session_state[u].status # "already_in_progress"
              /\ session_state'[u].status = "already_in_progress") =>
              /\ session_state'[u].sync_in_progress
              /\ session_state'[u].position = session_state[u].position
              /\ UNCHANGED syncVars

C30_NamedBugNotFound ==
    (/\ route = "triage"
     /\ qpc \in {"generating", "done"}
     /\ ExtractWorkItemFilter(question) # <<>>
     /\ relevant_docs = <<>>
     /\ Len(calls) >= 2 /\ ChunksOf({"error_analyzing_bug"}) = {}) =>
        /\ qpc = "done"
        /\ yielded = << Chunk("provide_bug_id") >>
        /\ calls = << "generate_embedding", "hybrid_search" >>
        /\ ~ Called("chat.completions.create")
        /\ similar_bugs = <<>> /\ requirements = <<>>
        /\ context = NoContext

\* the lookup of the bug a triage question names has found nothing, in an
\* index that holds bugs
C30_Witness ==
    /\ route = "triage"
    /\ qpc = "done"
    /\ ExtractWorkItemFilter(question) # <<>>
    /\ relevant_docs = <<>>
    /\ yielded = << Chunk("provide_bug_id") >>
    /\ \E d \in store : d.work_item_type = "Bug"

====
